---------------------------- MODULE Spec2Model ----------------------------
(***************************************************************************)
(* ChebulUP: framing (scripts/packet.py) and the ARQ engines               *)
(* (scripts/measure_arq_fast_sim.py, scripts/arq_stop_and_wait.py,         *)
(* scripts/arq_gbn.py) as state machines.                                  *)
(*                                                                         *)
(* Bytes are integers 0..255, a byte string is a sequence of bytes.  A     *)
(* 32-bit word (the CRC) is a pair <<hi, lo>> of 16-bit halves.            *)
(***************************************************************************)
EXTENDS Integers, Sequences, FiniteSets, TLC

(***************************************************************************)
(* Bounds of the model.                                                    *)
(***************************************************************************)
MaxMaxPayload == 2

(***************************************************************************)
(* scripts/packet.py: constants                                            *)
(***************************************************************************)
MAGIC == <<67, 80>>
VER == 1
TYPE_DATA == 0
TYPE_ACK == 1
\* struct.calcsize("!2sBBBBHHHH")
HDR_LEN == 14

\* Optional values: None, or Some(x); Get returns x
None == <<>>
Some(x) == <<x>>
Get(o) == o[1]

\* F applied to the value of e, with e computed once
Once(e, F(_)) == CHOOSE r \in {F(x) : x \in {e}} : TRUE

Min(a, b) == IF a <= b THEN a ELSE b
Max(a, b) == IF a >= b THEN a ELSE b

(***************************************************************************)
(* Bit operations on naturals, by binary digits.                           *)
(***************************************************************************)
RECURSIVE XorBits(_, _)
XorBits(a, b) ==
    IF a = 0 THEN b
    ELSE IF b = 0 THEN a
    ELSE ((a + b) % 2) + 2 * XorBits(a \div 2, b \div 2)

\* xor of two 4-bit numbers, tabulated (entry [a + 1][b + 1]); of two bytes;
\* of two 16-bit numbers
XorNibble ==
    SubSeq([a \in 1..16 |-> SubSeq([b \in 1..16 |-> XorBits(a - 1, b - 1)], 1, 16)],
           1, 16)
Xor8(a, b) ==
    16 * XorNibble[(a \div 16) + 1][(b \div 16) + 1]
       + XorNibble[(a % 16) + 1][(b % 16) + 1]
Xor(a, b) == 256 * Xor8(a \div 256, b \div 256) + Xor8(a % 256, b % 256)

\* a 32-bit word as two 16-bit halves
Xor32(x, y) == <<Xor(x[1], y[1]), Xor(x[2], y[2])>>
Shr1(x) == <<x[1] \div 2, (x[2] \div 2) + 32768 * (x[1] % 2)>>
Shr8(x) == <<x[1] \div 256, (x[2] \div 256) + 256 * (x[1] % 256)>>

(***************************************************************************)
(* zlib.crc32: CRC-32 (IEEE 802.3), reflected polynomial 0xEDB88320,       *)
(* initial value and final xor 0xFFFFFFFF, one table lookup per byte.      *)
(***************************************************************************)
CRC_POLY == <<60856, 33568>>
CRC_ONES == <<65535, 65535>>

\* one bit, and one byte, of the register's update
CrcBitStep(c) == IF c[2] % 2 = 1 THEN Xor32(CRC_POLY, Shr1(c)) ELSE Shr1(c)

RECURSIVE CrcBits(_, _)
CrcBits(c, k) ==
    IF k = 0 THEN c
    ELSE Once(CrcBitStep(c), LAMBDA n : CrcBits(n, k - 1))

\* the table of the 256 bytes (entry n + 1 for the byte n)
CrcTable == SubSeq([n \in 1..256 |-> CrcBits(<<0, n - 1>>, 8)], 1, 256)

CrcByteStep(c, byte) == Xor32(CrcTable[Xor8(c[2] % 256, byte) + 1], Shr8(c))

RECURSIVE CrcUpdate(_, _, _)
CrcUpdate(c, bytes, i) ==
    IF i > Len(bytes) THEN c
    ELSE Once(CrcByteStep(c, bytes[i]), LAMBDA n : CrcUpdate(n, bytes, i + 1))

crc32(bytes) ==
    Once(bytes, LAMBDA b :
        Once(CrcUpdate(CRC_ONES, b, 1), LAMBDA c : Xor32(c, CRC_ONES)))

\* struct.pack("!H", x) and struct.pack("!I", w), struct.unpack of the same
PackU16(x) == <<x \div 256, x % 256>>
PackU32(w) == PackU16(w[1]) \o PackU16(w[2])
UnpackU16(b, i) == 256 * b[i] + b[i + 1]
UnpackU32(b, i) == <<UnpackU16(b, i), UnpackU16(b, i + 2)>>

\* Python slice b[lo:hi] with 0 <= lo, on 0-based offsets
Slice(b, lo, hi) ==
    LET h == Min(hi, Len(b))
    IN  IF lo >= h THEN <<>> ELSE SubSeq(b, lo + 1, h)

(***************************************************************************)
(* scripts/packet.py: pack_frame, unpack_frame                             *)
(***************************************************************************)
Raise(e) == [err |-> e]
NoErr == "none"

Header(frame_type, msg_id, seq, total, length) ==
    MAGIC \o <<VER, frame_type, 0, 0>> \o PackU16(msg_id) \o PackU16(seq)
          \o PackU16(total) \o PackU16(length)

\* a pack_frame that writes seq and total in each other's place
pack_frame_swapped(frame_type, msg_id, seq, total, payload) ==
    Once(Header(frame_type, msg_id, total, seq, Len(payload)) \o payload,
         LAMBDA body : [err |-> NoErr, raw |-> body \o PackU32(crc32(body))])

\* a pack_frame that cuts msg_id, seq and total to 16 bits
pack_frame_truncating(frame_type, msg_id, seq, total, payload) ==
    IF Len(payload) > 65535 THEN Raise("payload too large")
    ELSE IF ~(0 <= frame_type /\ frame_type <= 255) THEN Raise("struct.error")
    ELSE Once(Header(frame_type, msg_id % 65536, seq % 65536, total % 65536,
                     Len(payload)) \o payload,
              LAMBDA body : [err |-> NoErr, raw |-> body \o PackU32(crc32(body))])

\* lines 15-18 are the four range checks; struct.pack (line 20) refuses a
\* frame_type that is not a byte
pack_frame(frame_type, msg_id, seq, total, payload) ==
    IF ~(0 <= msg_id /\ msg_id <= 65535) THEN Raise("msg_id out of range")
    ELSE IF ~(0 <= seq /\ seq <= 65535) THEN Raise("seq out of range")
    ELSE IF ~(0 <= total /\ total <= 65535) THEN Raise("total out of range")
    ELSE IF Len(payload) > 65535 THEN Raise("payload too large")
    ELSE IF ~(0 <= frame_type /\ frame_type <= 255) THEN Raise("struct.error")
    ELSE Once(Header(frame_type, msg_id, seq, total, Len(payload)) \o payload,
              LAMBDA body : [err |-> NoErr, raw |-> body \o PackU32(crc32(body))])

\* unpack_frame on the bytes raw
UnpackBytes(raw) ==
    IF Len(raw) < HDR_LEN + 4 THEN Raise("frame too short")
    ELSE IF <<raw[1], raw[2]>> # MAGIC THEN Raise("bad magic")
    ELSE IF raw[3] # VER THEN Raise("bad version")
    ELSE LET length == UnpackU16(raw, 13)
             payload_start == HDR_LEN
             payload_end == payload_start + length
         IN  IF payload_end + 4 > Len(raw) THEN Raise("bad length")
             ELSE IF crc32(Slice(raw, 0, payload_end)) # UnpackU32(raw, payload_end + 1)
                  THEN Raise("bad crc")
             ELSE [err |-> NoErr, ft |-> raw[4], msg_id |-> UnpackU16(raw, 7),
                   seq |-> UnpackU16(raw, 9), total |-> UnpackU16(raw, 11),
                   payload |-> Slice(raw, payload_start, payload_end)]

unpack_frame(raw) == Once(raw, UnpackBytes)

pack_ack(msg_id, seq, total) == pack_frame(TYPE_ACK, msg_id, seq, total, <<>>)

(***************************************************************************)
(* scripts/packet.py: fragment_message, reassemble_frames                  *)
(* A dict is a function on its key set; {} is the function on no key.      *)
(***************************************************************************)
EmptyDict == <<>>
DictSet(d, k, v) == [x \in (DOMAIN d) \cup {k} |-> IF x = k THEN v ELSE d[x]]

\* Python's floor division for a positive divisor
FloorDiv(a, b) == a \div b

RECURSIVE FragmentLoop(_, _, _, _, _, _)
FragmentLoop(payload, msg_id, max_payload, total, seq, acc) ==
    IF seq >= total THEN [err |-> NoErr, frames |-> acc]
    ELSE Once(pack_frame(TYPE_DATA, msg_id, seq, total,
                         Slice(payload, seq * max_payload, (seq + 1) * max_payload)),
              LAMBDA f :
                  IF f.err # NoErr THEN f
                  ELSE Once(Append(acc, f.raw), LAMBDA frames_so_far :
                           FragmentLoop(payload, msg_id, max_payload, total, seq + 1,
                                        frames_so_far)))

\* a fragment_message that rounds the fragment count down
fragment_message_floor(payload, msg_id, max_payload) ==
    IF max_payload <= 0 THEN Raise("max_payload must be > 0")
    ELSE LET n == FloorDiv(Len(payload), max_payload)
             total == IF n = 0 THEN 1 ELSE n
         IN  FragmentLoop(payload, msg_id, max_payload, total, 0, <<>>)

\* a fragment_message that always ends with one more, empty, frame
fragment_message_one_more(payload, msg_id, max_payload) ==
    IF max_payload <= 0 THEN Raise("max_payload must be > 0")
    ELSE LET n == FloorDiv(Len(payload) + max_payload - 1, max_payload)
         IN  FragmentLoop(payload, msg_id, max_payload, n + 1, 0, <<>>)

fragment_message(payload, msg_id, max_payload) ==
    IF max_payload <= 0 THEN Raise("max_payload must be > 0")
    ELSE LET n == FloorDiv(Len(payload) + max_payload - 1, max_payload)
             total == IF n = 0 THEN 1 ELSE n
         IN  FragmentLoop(payload, msg_id, max_payload, total, 0, <<>>)

RECURSIVE JoinParts(_, _, _)
JoinParts(frames_payloads, total, seq) ==
    IF seq >= total THEN <<>>
    ELSE frames_payloads[seq] \o JoinParts(frames_payloads, total, seq + 1)

RECURSIVE JoinPresent(_, _, _)
JoinPresent(frames_payloads, total, seq) ==
    IF seq >= total THEN <<>>
    ELSE (IF seq \in DOMAIN frames_payloads THEN frames_payloads[seq] ELSE <<>>)
            \o JoinPresent(frames_payloads, total, seq + 1)

\* a reassemble_frames that only counts the parts, and joins those it has
reassemble_frames_by_count(frames_payloads, total) ==
    IF total <= 0 THEN Raise("total must be > 0")
    ELSE IF Cardinality(DOMAIN frames_payloads) < total
         THEN [err |-> NoErr, value |-> None]
    ELSE [err |-> NoErr, value |-> Some(JoinPresent(frames_payloads, total, 0))]

\* returns [err, value]; value is None or Some(the joined bytes)
reassemble_frames(frames_payloads, total) ==
    IF total <= 0 THEN Raise("total must be > 0")
    ELSE IF Cardinality(DOMAIN frames_payloads) < total
         THEN [err |-> NoErr, value |-> None]
    ELSE IF \E seq \in 0..(total - 1) : seq \notin DOMAIN frames_payloads
         THEN [err |-> NoErr, value |-> None]
    ELSE [err |-> NoErr, value |-> Some(JoinParts(frames_payloads, total, 0))]

(***************************************************************************)
(* scripts/measure_arq_fast_sim.py: _corrupt_bytes.  The two draws of the  *)
(* generator are the byte index i (0-based) and the bit number.            *)
(***************************************************************************)
FlipBit(byte, bit) ==
    LET w == 2 ^ bit
    IN  IF (byte \div w) % 2 = 1 THEN byte - w ELSE byte + w

corrupt_bytes(b, i, bit) ==
    IF Len(b) = 0 THEN b ELSE [b EXCEPT ![i + 1] = FlipBit(b[i + 1], bit)]

(***************************************************************************)
(* ASCII armoring: base64.b64encode and base64.b64decode (binascii's       *)
(* a2b_base64, not strict).  A character is its index 0..63 in the         *)
(* alphabet A-Z a-z 0-9 + /, and B64_PAD is "=".                           *)
(***************************************************************************)
B64_PAD == 64

RECURSIVE b64encode_from(_, _)
b64encode_from(b, i) ==
    LET n == Len(b) - i + 1
    IN  IF n <= 0 THEN <<>>
        ELSE IF n = 1
             THEN <<b[i] \div 4, (b[i] % 4) * 16, B64_PAD, B64_PAD>>
        ELSE IF n = 2
             THEN <<b[i] \div 4, (b[i] % 4) * 16 + (b[i + 1] \div 16),
                    (b[i + 1] % 16) * 4, B64_PAD>>
        ELSE <<b[i] \div 4, (b[i] % 4) * 16 + (b[i + 1] \div 16),
               (b[i + 1] % 16) * 4 + (b[i + 2] \div 64), b[i + 2] % 64>>
             \o b64encode_from(b, i + 3)

b64encode(b) == Once(b, LAMBDA bytes : b64encode_from(bytes, 1))

B64Start == [quad_pos |-> 0, leftchar |-> 0, pads |-> 0, out |-> <<>>, done |-> FALSE]

B64Char(st, c) ==
    IF c = B64_PAD
    THEN IF st.quad_pos >= 2
         THEN [st EXCEPT !.pads = @ + 1, !.done = (st.quad_pos + st.pads + 1 >= 4)]
         ELSE st
    ELSE CASE st.quad_pos = 0 ->
                  [st EXCEPT !.pads = 0, !.quad_pos = 1, !.leftchar = c]
           [] st.quad_pos = 1 ->
                  [st EXCEPT !.pads = 0, !.quad_pos = 2, !.leftchar = c % 16,
                             !.out = Append(@, st.leftchar * 4 + (c \div 16))]
           [] st.quad_pos = 2 ->
                  [st EXCEPT !.pads = 0, !.quad_pos = 3, !.leftchar = c % 4,
                             !.out = Append(@, st.leftchar * 16 + (c \div 4))]
           [] OTHER ->
                  [st EXCEPT !.pads = 0, !.quad_pos = 0, !.leftchar = 0,
                             !.out = Append(@, st.leftchar * 64 + c)]

RECURSIVE B64Scan(_, _, _)
B64Scan(st, text, i) ==
    IF st.done \/ i > Len(text) THEN st
    ELSE Once(B64Char(st, text[i]), LAMBDA n : B64Scan(n, text, i + 1))

B64Scanned(st) ==
    IF st.done \/ st.quad_pos = 0 THEN [err |-> NoErr, raw |-> st.out]
    ELSE IF st.quad_pos = 1 THEN Raise("invalid base64 length")
    ELSE Raise("incorrect padding")

\* returns [err, raw]
b64decode(text) ==
    Once(text, LAMBDA t : Once(B64Scan(B64Start, t, 1), B64Scanned))

(***************************************************************************)
(* scripts/arq_gbn.py, scripts/arq_stop_and_wait.py: corrupt_b64_ascii.    *)
(* The draws of random.randrange are i (the position), i2 (the position    *)
(* drawn again when the first one holds "=") and k (the new character).    *)
(***************************************************************************)
corrupt_b64_ascii(b, i, i2, k) ==
    IF Len(b) = 0 THEN b
    ELSE LET j == IF b[i + 1] = B64_PAD /\ Len(b) > 1 THEN i2 ELSE i
             ch == b[j + 1]
             new == IF k = ch THEN (k + 1) % 64 ELSE k
         IN  [b EXCEPT ![j + 1] = new]

(***************************************************************************)
(* The opaque PHY (ggwave encode / decode), taken as the transparent       *)
(* transducer: what is decoded is the text that was encoded, and the       *)
(* duration of a waveform is a count of samples per character.             *)
(***************************************************************************)
phy_encode_text(text) == [pcm |-> text, dur_s |-> Len(text)]
phy_decode_b64bytes(pcm) == Some(pcm)

(***************************************************************************)
(* random.random() < p: the outcomes the generator can give.  A            *)
(* probability is given in percent.                                        *)
(***************************************************************************)
Draw(p) == IF p <= 0 THEN {FALSE} ELSE IF p >= 100 THEN {TRUE} ELSE {TRUE, FALSE}

(***************************************************************************)
(* State.                                                                  *)
(*   variant   which program runs                                          *)
(*   cfg       the arguments of the run                                    *)
(*   frames    the raw frames made by pack_frame / fragment_message        *)
(*   q_data, q_ack   the two channels' queues                              *)
(*   rx        the receiver's state                                        *)
(*   snd       the sender's loop variables                                 *)
(*   counters  the run's counters                                          *)
(*   clock     the run's time variables                                    *)
(*   pc        the position in the program                                 *)
(*   result    what the program returned or raised                         *)
(*   rng       the outputs of the run's generator random.Random(seed),     *)
(*             where they are followed (see TakeDraws)                     *)
(***************************************************************************)
VARIABLES variant, cfg, frames, q_data, q_ack, rx, snd, counters, clock, pc, result,
          rng

vars == <<variant, cfg, frames, q_data, q_ack, rx, snd, counters, clock, pc, result, rng>>

Unused == <<>>
NoResult == [err |-> "pending"]

(***************************************************************************)
(* The framing programs: scripts/test_packet_over_phy.py (one frame packed,*)
(* carried and unpacked) and scripts/test_fragment_over_phy.py (a message  *)
(* fragmented, each frame carried, unpacked and stored, then reassembled). *)
(* The carrier either hands the frame over as sent or flips one bit of it  *)
(* (_corrupt_bytes).                                                       *)
(***************************************************************************)
\* inputs of the framing programs
PayloadBytes == {104, 255}
MaxLen == 3

RECURSIVE SeqsUpTo(_, _)
SeqsUpTo(S, n) ==
    IF n = 0 THEN {<<>>}
    ELSE LET shorter == SeqsUpTo(S, n - 1)
         IN  shorter \cup {Append(s, x) : s \in {t \in shorter : Len(t) = n - 1}, x \in S}

Payloads == SeqsUpTo(PayloadBytes, MaxLen)

\* the four bytes that end the frame with these header fields and no payload
EmptyFrameCrc(frame_type, msg_id, seq, total) ==
    PackU32(crc32(Header(frame_type, msg_id, seq, total, 0)))

InitPacket ==
    /\ variant = "test_packet"
    /\ \E ft \in {TYPE_DATA, TYPE_ACK}, m \in {1, 65535}, s \in {0, 258}, t \in {1, 65535} :
         \E p \in {q \in Payloads : Len(q) <= 2} \cup {EmptyFrameCrc(ft, m, s, t)} :
            cfg = [frame_type |-> ft, msg_id |-> m, seq |-> s, total |-> t, payload |-> p]
    /\ frames = <<>> /\ q_data = <<>> /\ q_ack = <<>>
    /\ rx = Unused /\ snd = Unused /\ counters = Unused /\ clock = Unused
    /\ pc = "start" /\ result = NoResult /\ rng = Unused

InitFragment ==
    /\ variant = "test_fragment"
    /\ cfg \in [msg_id : {42, 65535}, payload : Payloads, max_payload : 0..MaxMaxPayload]
    /\ frames = <<>> /\ q_data = <<>> /\ q_ack = <<>>
    /\ rx = [got_parts |-> EmptyDict, expected_total |-> None]
    /\ snd = [idx |-> 0]
    /\ counters = Unused /\ clock = Unused
    /\ pc = "start" /\ result = NoResult /\ rng = Unused

\* test_packet_over_phy.main: raw_frame = pack_frame(...)
PackStep ==
    /\ variant = "test_packet" /\ pc = "start"
    /\ LET r == pack_frame(cfg.frame_type, cfg.msg_id, cfg.seq, cfg.total, cfg.payload)
       IN  IF r.err # NoErr
           THEN /\ result' = r /\ pc' = "raised" /\ frames' = frames
           ELSE /\ frames' = <<r.raw>> /\ pc' = "packed" /\ result' = result
    /\ UNCHANGED <<rng, variant, cfg, q_data, q_ack, rx, snd, counters, clock>>

\* the frame crosses the carrier unchanged
CarryStep ==
    /\ variant = "test_packet" /\ pc = "packed"
    /\ q_data' = <<frames[1]>>
    /\ pc' = "carried"
    /\ UNCHANGED <<rng, variant, cfg, frames, q_ack, rx, snd, counters, clock, result>>

\* the frame crosses the carrier with one bit flipped
CarryCorruptStep ==
    /\ variant = "test_packet" /\ pc = "packed"
    /\ \E i \in 0..(Len(frames[1]) - 1), bit \in 0..7 :
          q_data' = <<corrupt_bytes(frames[1], i, bit)>>
    /\ pc' = "carried_corrupt"
    /\ UNCHANGED <<rng, variant, cfg, frames, q_ack, rx, snd, counters, clock, result>>

\* test_packet_over_phy.main: unpack_frame(raw_back)
UnpackStep ==
    /\ variant = "test_packet" /\ pc \in {"carried", "carried_corrupt"}
    /\ result' = unpack_frame(q_data[1])
    /\ pc' = IF pc = "carried" THEN "unpacked" ELSE "unpacked_corrupt"
    /\ UNCHANGED <<rng, variant, cfg, frames, q_data, q_ack, rx, snd, counters, clock>>

\* test_fragment_over_phy.main: frames = fragment_message(...)
FragmentStep ==
    /\ variant = "test_fragment" /\ pc = "start"
    /\ LET r == fragment_message(cfg.payload, cfg.msg_id, cfg.max_payload)
       IN  IF r.err # NoErr
           THEN /\ result' = r /\ pc' = "raised" /\ frames' = frames
           ELSE /\ frames' = r.frames /\ pc' = "store" /\ result' = result
    /\ UNCHANGED <<rng, variant, cfg, q_data, q_ack, rx, snd, counters, clock>>

\* test_fragment_over_phy.main: one turn of the loop over the frames
StoreStep ==
    /\ variant = "test_fragment" /\ pc = "store" /\ snd.idx < Len(frames)
    /\ LET f == unpack_frame(frames[snd.idx + 1])
       IN  IF f.err # NoErr THEN /\ result' = f /\ pc' = "raised" /\ rx' = rx
           ELSE IF f.ft # TYPE_DATA
                THEN /\ result' = Raise("unexpected frame type") /\ pc' = "raised" /\ rx' = rx
           ELSE IF f.msg_id # cfg.msg_id
                THEN /\ result' = Raise("unexpected msg_id") /\ pc' = "raised" /\ rx' = rx
           ELSE IF rx.expected_total # None /\ rx.expected_total # Some(f.total)
                THEN /\ result' = Raise("total mismatch") /\ pc' = "raised" /\ rx' = rx
           ELSE /\ rx' = [got_parts |-> DictSet(rx.got_parts, f.seq, f.payload),
                          expected_total |-> Some(f.total)]
                /\ pc' = pc /\ result' = result
    /\ snd' = [idx |-> snd.idx + 1]
    /\ UNCHANGED <<rng, variant, cfg, frames, q_data, q_ack, counters, clock>>

\* test_fragment_over_phy.main: final = reassemble_frames(got_parts, expected_total or 0)
ReassembleStep ==
    /\ variant = "test_fragment" /\ pc = "store" /\ snd.idx = Len(frames)
    /\ result' = reassemble_frames(rx.got_parts,
                                   IF rx.expected_total = None THEN 0 ELSE Get(rx.expected_total))
    /\ pc' = "reassembled"
    /\ UNCHANGED <<rng, variant, cfg, frames, q_data, q_ack, rx, snd, counters, clock>>

NextPacket ==
    \/ PackStep
    \/ CarryStep
    \/ CarryCorruptStep
    \/ UnpackStep
    \/ FragmentStep
    \/ StoreStep
    \/ ReassembleStep

SpecPacket == (InitPacket \/ InitFragment) /\ [][NextPacket]_vars


(***************************************************************************)
(* Inputs of the ARQ runs.                                                 *)
(***************************************************************************)
MaxWindow == 2
MaxRetries == 2
MaxTimeout == 1
\* in a run whose budget is Unlimited the counters stop at CounterCap and a
\* channel queue holds at most QueueCap items
CounterCap == 1
QueueCap == 4
Unlimited == 1000000

\* a payload that holds the CRC of the empty first frame of message 1
CraftedPayload == EmptyFrameCrc(TYPE_DATA, 1, 0, 1)

RunInputs ==
    { [payload |-> <<>>, max_payload |-> 1],
      [payload |-> <<104, 105>>, max_payload |-> 2],
      [payload |-> <<104, 105, 33>>, max_payload |-> 2],
      [payload |-> <<104, 105, 33>>, max_payload |-> 1],
      [payload |-> CraftedPayload, max_payload |-> 4] }

\* drop and corrupt probabilities of the two channels, in percent
Channels ==
    { [drop_data |-> 0, drop_ack |-> 0, corrupt_data_prob |-> 0, corrupt_ack_prob |-> 0],
      [drop_data |-> 50, drop_ack |-> 50, corrupt_data_prob |-> 0, corrupt_ack_prob |-> 0],
      [drop_data |-> 0, drop_ack |-> 0, corrupt_data_prob |-> 50, corrupt_ack_prob |-> 50],
      [drop_data |-> 100, drop_ack |-> 0, corrupt_data_prob |-> 0, corrupt_ack_prob |-> 0],
      [drop_data |-> 0, drop_ack |-> 100, corrupt_data_prob |-> 0, corrupt_ack_prob |-> 0] }

\* the draws of corrupt_b64_ascii the model follows: the first character, the
\* character that holds the low bits of the length field, the last character
CorruptDraws(text) ==
    IF Len(text) = 0 THEN {<<0, 0, 0>>}
    ELSE {<<i, Max(0, Len(text) - 2), 3>> : i \in {0, 18, Len(text) - 1} \cap (0..(Len(text) - 1))}

\* counting, and queueing, in a run (see CounterCap, QueueCap)
Budget == IF variant = "gbn" THEN cfg.max_timeouts ELSE cfg.max_retries
Inc(x) == IF Budget = Unlimited THEN Min(x + 1, CounterCap) ELSE x + 1
Add(x, d) == IF Budget = Unlimited THEN Min(x + d, CounterCap) ELSE x + d
Enqueue(q, item) ==
    IF Budget = Unlimited /\ Len(q) >= QueueCap THEN q ELSE Append(q, item)

(***************************************************************************)
(* scripts/arq_gbn.py: GBNReceiver                                         *)
(***************************************************************************)
GBNReceiver(msg_id) ==
    [msg_id |-> msg_id, expected_seq |-> 0, total |-> None,
     parts |-> EmptyDict, assembled |-> None]

\* lines 176-196, once the frame is unpacked, of the right type and message,
\* and in order: store it, move expected_seq, try to reassemble
OnDataInOrder(s2, f, a) ==
    IF a.err # NoErr THEN [err |-> a.err, self |-> s2, ret |-> None]
    ELSE [err |-> NoErr,
          self |-> IF a.value # None THEN [s2 EXCEPT !.assembled = a.value] ELSE s2,
          ret |-> Some(<<f.msg_id, f.seq>>)]

OnDataStore(s1, f) ==
    Once([s1 EXCEPT !.parts = DictSet(@, f.seq, f.payload), !.expected_seq = @ + 1],
         LAMBDA s2 :
             Once(reassemble_frames(s2.parts, Get(s2.total)),
                  LAMBDA a : OnDataInOrder(s2, f, a)))

\* a receiver that stores a frame whatever its seq
OnDataUnpacked_any_order(self, f) ==
    IF f.err # NoErr THEN [err |-> f.err, self |-> self, ret |-> None]
    ELSE IF f.ft # TYPE_DATA \/ f.msg_id # self.msg_id
         THEN [err |-> NoErr, self |-> self, ret |-> None]
    ELSE OnDataStore(IF self.total = None THEN [self EXCEPT !.total = Some(f.total)]
                     ELSE self, f)

\* a receiver that does not acknowledge a frame that is out of order
OnDataUnpacked_silent(self, f) ==
    IF f.err # NoErr THEN [err |-> f.err, self |-> self, ret |-> None]
    ELSE IF f.ft # TYPE_DATA \/ f.msg_id # self.msg_id
         THEN [err |-> NoErr, self |-> self, ret |-> None]
    ELSE LET s1 == IF self.total = None THEN [self EXCEPT !.total = Some(f.total)]
                   ELSE self
         IN  IF f.seq # s1.expected_seq
             THEN [err |-> NoErr, self |-> s1, ret |-> None]
             ELSE OnDataStore(s1, f)

\* a receiver that acknowledges seq 0 when it holds no frame yet
OnDataUnpacked_ack_zero(self, f) ==
    IF f.err # NoErr THEN [err |-> f.err, self |-> self, ret |-> None]
    ELSE IF f.ft # TYPE_DATA \/ f.msg_id # self.msg_id
         THEN [err |-> NoErr, self |-> self, ret |-> None]
    ELSE LET s1 == IF self.total = None THEN [self EXCEPT !.total = Some(f.total)]
                   ELSE self
         IN  IF f.seq # s1.expected_seq
             THEN [err |-> NoErr, self |-> s1,
                   ret |-> Some(<<f.msg_id, Max(0, s1.expected_seq - 1)>>)]
             ELSE OnDataStore(s1, f)

\* a receiver that learns the total only from a frame that is in order
OnDataUnpacked_total_in_order(self, f) ==
    IF f.err # NoErr THEN [err |-> f.err, self |-> self, ret |-> None]
    ELSE IF f.ft # TYPE_DATA \/ f.msg_id # self.msg_id
         THEN [err |-> NoErr, self |-> self, ret |-> None]
    ELSE IF f.seq # self.expected_seq
         THEN [err |-> NoErr, self |-> self,
               ret |-> Some(<<f.msg_id, Max(-1, self.expected_seq - 1)>>)]
         ELSE OnDataStore(IF self.total = None THEN [self EXCEPT !.total = Some(f.total)]
                          ELSE self, f)

\* a receiver that acknowledges the seq it was given, in order or not
OnDataUnpacked_acks_received(self, f) ==
    IF f.err # NoErr THEN [err |-> f.err, self |-> self, ret |-> None]
    ELSE IF f.ft # TYPE_DATA \/ f.msg_id # self.msg_id
         THEN [err |-> NoErr, self |-> self, ret |-> None]
    ELSE LET s1 == IF self.total = None THEN [self EXCEPT !.total = Some(f.total)]
                   ELSE self
         IN  IF f.seq # s1.expected_seq
             THEN [err |-> NoErr, self |-> s1, ret |-> Some(<<f.msg_id, f.seq>>)]
             ELSE OnDataStore(s1, f)

OnDataUnpacked(self, f) ==
    IF f.err # NoErr THEN [err |-> f.err, self |-> self, ret |-> None]
    ELSE IF f.ft # TYPE_DATA \/ f.msg_id # self.msg_id
         THEN [err |-> NoErr, self |-> self, ret |-> None]
    ELSE LET s1 == IF self.total = None THEN [self EXCEPT !.total = Some(f.total)]
                   ELSE self
         IN  IF f.seq # s1.expected_seq
             THEN [err |-> NoErr, self |-> s1,
                   ret |-> Some(<<f.msg_id, Max(-1, s1.expected_seq - 1)>>)]
             ELSE OnDataStore(s1, f)

\* returns [err, self, ret]: the exception if one is raised, the receiver as
\* it is left, and the returned (mid, ack_seq) or None
GBNReceiver_on_data(self, raw_frame) ==
    Once(unpack_frame(raw_frame), LAMBDA f : OnDataUnpacked(self, f))

(***************************************************************************)
(* scripts/arq_gbn.py: run_once                                            *)
(***************************************************************************)
\* lines 222-231: the budget from max_timeouts and its alias max_retries
DEFAULT_MAX_TIMEOUTS == 20
ResolveMaxTimeouts(max_timeouts, max_retries) ==
    IF max_timeouts = None /\ max_retries = None THEN DEFAULT_MAX_TIMEOUTS
    ELSE IF max_timeouts = None THEN Get(max_retries)
    ELSE Get(max_timeouts)

GbnBudgets ==
    { [max_timeouts |-> Some(n), max_retries |-> None] : n \in {1} } \cup
    { [max_timeouts |-> None, max_retries |-> Some(n)] : n \in 2..MaxRetries }

GbnCfg(in, ch, b, w, t) ==
    [payload |-> in.payload, max_payload |-> in.max_payload, msg_id |-> 1,
     drop_data |-> ch.drop_data, drop_ack |-> ch.drop_ack,
     corrupt_data_prob |-> ch.corrupt_data_prob, corrupt_ack_prob |-> ch.corrupt_ack_prob,
     timeout_s |-> t, window |-> w,
     max_timeouts |-> ResolveMaxTimeouts(b.max_timeouts, b.max_retries)]

GbnInitState ==
    /\ variant = "gbn"
    /\ frames = <<>> /\ q_data = <<>> /\ q_ack = <<>>
    /\ rx = GBNReceiver(cfg.msg_id)
    /\ snd = [base |-> 0, next_to_send |-> 0, last_ack |-> -1, ret |-> "none",
              timeouts_at_base |-> 0]
    /\ counters = [timeouts_total |-> 0, crc_fail_total |-> 0, data_sent |-> 0,
                   data_dropped |-> 0, ack_sent |-> 0, ack_dropped |-> 0]
    /\ clock = [remaining |-> 0, phy_seconds |-> 0]
    /\ pc = "start" /\ result = NoResult /\ rng = Unused

InitGBN ==
    /\ \E in \in RunInputs, ch \in Channels, b \in GbnBudgets,
          w \in 1..MaxWindow, t \in 0..MaxTimeout :
          cfg = GbnCfg(in, ch, b, w, t)
    /\ GbnInitState

\* the runs whose arguments are refused
InitGBNBadArgs ==
    /\ \E in \in {[payload |-> <<104>>, max_payload |-> 0], [payload |-> <<104>>, max_payload |-> 1]},
          w \in {0, 1} :
          /\ (in.max_payload = 0 \/ w = 0)
          /\ cfg = GbnCfg(in, CHOOSE ch \in Channels : ch.drop_data = 0 /\ ch.drop_ack = 0
                                                       /\ ch.corrupt_data_prob = 0,
                          [max_timeouts |-> None, max_retries |-> None], w, 1)
    /\ GbnInitState

frames_total == Len(frames)

GbnStarted(r) ==
    IF r.err # NoErr
    THEN /\ result' = r /\ pc' = "raised" /\ frames' = frames
    ELSE IF cfg.window < 1
         THEN /\ result' = Raise("window must be >= 1") /\ pc' = "raised"
              /\ frames' = r.frames
    ELSE /\ frames' = r.frames /\ pc' = "loop" /\ result' = result

\* lines 252-253 and 345-348: fragment, then refuse a window < 1
GbnStart ==
    /\ variant = "gbn" /\ pc = "start"
    /\ \E r \in {fragment_message(cfg.payload, cfg.msg_id, cfg.max_payload)} :
          GbnStarted(r)
    /\ UNCHANGED <<rng, variant, cfg, q_data, q_ack, rx, snd, counters, clock>>

\* line 351: while base < frames_total; line 375 when the loop ends
GbnLoop ==
    /\ variant = "gbn" /\ pc = "loop"
    /\ IF snd.base < frames_total
       THEN /\ pc' = "fill" /\ snd' = snd
       ELSE /\ pc' = "pump" /\ snd' = [snd EXCEPT !.ret = "finish"]
    /\ UNCHANGED <<rng, variant, cfg, frames, q_data, q_ack, rx, counters, clock, result>>

\* a data channel that loses every frame
GbnTransmit_lost(tx, dropped) ==
    /\ clock' = [clock EXCEPT !.phy_seconds = Add(@, tx.dur_s)]
    /\ counters' = [counters EXCEPT !.data_sent = Inc(@), !.data_dropped = Inc(@)]
    /\ q_data' = q_data

\* lines 337-343: the encoded frame goes to the data channel
GbnTransmit(tx, dropped) ==
    /\ clock' = [clock EXCEPT !.phy_seconds = Add(@, tx.dur_s)]
    /\ counters' = [counters EXCEPT !.data_sent = Inc(@),
                                    !.data_dropped = IF dropped THEN Inc(@) ELSE @]
    /\ q_data' = IF dropped THEN q_data ELSE Enqueue(q_data, tx.pcm)

\* a sender that sends on whatever the window
GbnSendData_no_window(dropped) ==
    /\ variant = "gbn" /\ pc = "fill"
    /\ snd.next_to_send < frames_total
    /\ dropped \in Draw(cfg.drop_data)
    /\ \E tx \in {phy_encode_text(b64encode(frames[snd.next_to_send + 1]))} :
          GbnTransmit(tx, dropped)
    /\ snd' = [snd EXCEPT !.next_to_send = @ + 1]
    /\ UNCHANGED <<rng, variant, cfg, frames, q_ack, rx, pc, result>>

\* lines 353-355 and 333-343: send_data_frame(next_to_send); dropped is the
\* channel's draw
GbnSendData(dropped) ==
    /\ variant = "gbn" /\ pc = "fill"
    /\ snd.next_to_send < frames_total /\ snd.next_to_send < snd.base + cfg.window
    /\ dropped \in Draw(cfg.drop_data)
    /\ \E tx \in {phy_encode_text(b64encode(frames[snd.next_to_send + 1]))} :
          GbnTransmit(tx, dropped)
    /\ snd' = [snd EXCEPT !.next_to_send = @ + 1]
    /\ UNCHANGED <<rng, variant, cfg, frames, q_ack, rx, pc, result>>

\* line 357: the window is full, receiver_pump() and then the wait (line 359)
GbnFillDone ==
    /\ variant = "gbn" /\ pc = "fill"
    /\ ~(snd.next_to_send < frames_total /\ snd.next_to_send < snd.base + cfg.window)
    /\ pc' = "pump" /\ snd' = [snd EXCEPT !.ret = "wait"]
    /\ UNCHANGED <<rng, variant, cfg, frames, q_data, q_ack, rx, counters, clock, result>>

\* lines 270-274: the text that reaches the decoder
Received(pcm, corrupt, draw) ==
    IF corrupt
    THEN corrupt_b64_ascii(Get(phy_decode_b64bytes(pcm)), draw[1], draw[2], draw[3])
    ELSE Get(phy_decode_b64bytes(pcm))

\* lines 278-279: b64decode, then on_data
GbnOnDecoded(b) ==
    IF b.err # NoErr THEN [err |-> b.err, self |-> rx, ret |-> None]
    ELSE GBNReceiver_on_data(rx, b.raw)

\* lines 270-279: from the samples to what on_data did
GbnReceive(pcm, corrupt, draw) ==
    Once(b64decode(Received(pcm, corrupt, draw)), GbnOnDecoded)

\* lines 288-295: the packed ACK goes to the ACK channel, or pack_ack raised
GbnSendAck(ack_frame, dropped) ==
    IF ack_frame.err # NoErr
    THEN /\ counters' = [counters EXCEPT !.crc_fail_total = Inc(@)]
         /\ q_ack' = q_ack
    ELSE /\ counters' = [counters EXCEPT !.ack_sent = Inc(@),
                                         !.ack_dropped = IF dropped THEN Inc(@) ELSE @]
         /\ q_ack' = IF dropped THEN q_ack
                     ELSE Enqueue(q_ack, phy_encode_text(b64encode(ack_frame.raw)).pcm)

\* lines 279-299: what on_data did decides the rest of the turn
GbnPumpOutcome(od, dropped) ==
    /\ rx' = od.self
    /\ IF od.err # NoErr
       THEN /\ counters' = [counters EXCEPT !.crc_fail_total = Inc(@)]
            /\ q_ack' = q_ack
       ELSE IF od.ret = None
            THEN /\ counters' = counters /\ q_ack' = q_ack
       ELSE \E ack_frame \in {pack_ack(Get(od.ret)[1], Get(od.ret)[2],
                                        IF od.self.total # None THEN Get(od.self.total)
                                        ELSE frames_total)} :
               GbnSendAck(ack_frame, dropped)

\* lines 265-299: one turn of receiver_pump's loop on the frame at the head of
\* the data channel.  corrupt and draw are the corruption's draws, dropped the
\* ACK channel's.
GbnPumpFrame(corrupt, draw, dropped) ==
    /\ variant = "gbn" /\ pc = "pump" /\ q_data # <<>>
    /\ corrupt \in Draw(cfg.corrupt_data_prob)
    /\ dropped \in Draw(cfg.drop_ack)
    /\ draw \in CorruptDraws(Head(q_data))
    /\ q_data' = Tail(q_data)
    /\ \E od \in {GbnReceive(Head(q_data), corrupt, draw)} : GbnPumpOutcome(od, dropped)
    /\ UNCHANGED <<rng, variant, cfg, frames, snd, clock, pc, result>>

\* lines 377-400: the RunResult
GbnRunResult ==
    LET ok == (rx.assembled = Some(cfg.payload))
    IN  [err |-> NoErr, ok |-> ok, frames_total |-> frames_total,
         timeouts_total |-> counters.timeouts_total,
         crc_fail_total |-> counters.crc_fail_total,
         data_sent |-> counters.data_sent, data_dropped |-> counters.data_dropped,
         ack_sent |-> counters.ack_sent, ack_dropped |-> counters.ack_dropped,
         phy_seconds |-> clock.phy_seconds,
         virtual_seconds |-> Add(clock.phy_seconds, counters.timeouts_total * cfg.timeout_s)]

\* lines 266-268: the data channel is empty, receiver_pump returns to where it
\* was called: before the wait (357-359), in the wait (308-310), at the end (375)
GbnPumpDone ==
    /\ variant = "gbn" /\ pc = "pump" /\ q_data = <<>>
    /\ IF snd.ret = "wait"
       THEN /\ pc' = "wait" /\ clock' = [clock EXCEPT !.remaining = cfg.timeout_s]
            /\ result' = result
       ELSE IF snd.ret = "recv"
            THEN /\ pc' = "recv" /\ clock' = clock /\ result' = result
       ELSE /\ pc' = "done" /\ clock' = clock /\ result' = GbnRunResult
    /\ UNCHANGED <<rng, variant, cfg, frames, q_data, q_ack, rx, snd, counters>>

\* a sender that, after a timeout, goes on from where it was
GbnWait_no_go_back ==
    /\ variant = "gbn" /\ pc = "wait"
    /\ IF clock.remaining > 0
       THEN /\ pc' = "pump" /\ snd' = [snd EXCEPT !.ret = "recv"]
            /\ counters' = counters /\ result' = result
       ELSE /\ counters' = [counters EXCEPT !.timeouts_total = Inc(@)]
            /\ IF counters.timeouts_total + 1 >= cfg.max_timeouts
               THEN /\ result' = Raise("GBN failed: too many timeouts")
                    /\ pc' = "raised"
                    /\ snd' = [snd EXCEPT !.timeouts_at_base = Inc(@)]
               ELSE /\ snd' = [snd EXCEPT !.timeouts_at_base = Inc(@)]
                    /\ pc' = "loop" /\ result' = result
    /\ UNCHANGED <<rng, variant, cfg, frames, q_data, q_ack, rx, clock>>

\* line 307: while time.time() < deadline, and lines 360-367 when it is not
\* (snd.timeouts_at_base is a record of the run, not a variable of the
\* source: the timeouts counted since base last advanced)
GbnWait ==
    /\ variant = "gbn" /\ pc = "wait"
    /\ IF clock.remaining > 0
       THEN /\ pc' = "pump" /\ snd' = [snd EXCEPT !.ret = "recv"]
            /\ counters' = counters /\ result' = result
       ELSE /\ counters' = [counters EXCEPT !.timeouts_total = Inc(@)]
            /\ IF counters.timeouts_total + 1 >= cfg.max_timeouts
               THEN /\ result' = Raise("GBN failed: too many timeouts")
                    /\ pc' = "raised"
                    /\ snd' = [snd EXCEPT !.timeouts_at_base = Inc(@)]
               ELSE /\ snd' = [snd EXCEPT !.next_to_send = snd.base,
                                          !.timeouts_at_base = Inc(@)]
                    /\ pc' = "loop" /\ result' = result
    /\ UNCHANGED <<rng, variant, cfg, frames, q_data, q_ack, rx, clock>>

\* lines 310-313: nothing on the ACK channel, sleep a tick
GbnSleep ==
    /\ variant = "gbn" /\ pc = "recv" /\ q_ack = <<>>
    /\ clock' = [clock EXCEPT !.remaining = @ - 1]
    /\ pc' = "wait"
    /\ UNCHANGED <<rng, variant, cfg, frames, q_data, q_ack, rx, snd, counters, result>>

\* lines 316-329: b64decode, then unpack_frame
DecodeFrame(b) == IF b.err # NoErr THEN b ELSE unpack_frame(b.raw)

\* lines 315-324: from the samples to the unpacked ACK
ReceiveFrame(pcm, corrupt, draw) ==
    Once(b64decode(Received(pcm, corrupt, draw)), DecodeFrame)

\* a sender that goes back to the acknowledged frame on an ACK that is not new
GbnAckOutcome_regress(f) ==
    IF f.err # NoErr
    THEN /\ counters' = [counters EXCEPT !.crc_fail_total = Inc(@)]
         /\ pc' = "wait" /\ snd' = snd
    ELSE IF f.ft = TYPE_ACK /\ f.msg_id = cfg.msg_id
         THEN /\ counters' = counters /\ pc' = "loop"
              /\ snd' = IF f.seq > snd.last_ack
                        THEN [snd EXCEPT !.last_ack = f.seq,
                                         !.base = Max(snd.base, f.seq + 1),
                                         !.timeouts_at_base =
                                             IF f.seq + 1 > snd.base THEN 0 ELSE @]
                        ELSE [snd EXCEPT !.base = f.seq]
    ELSE /\ counters' = counters /\ pc' = "wait" /\ snd' = snd

\* a sender that goes back to base on an ACK it cannot decode
GbnAckOutcome_go_back(f) ==
    IF f.err # NoErr
    THEN /\ counters' = [counters EXCEPT !.crc_fail_total = Inc(@)]
         /\ pc' = "loop" /\ snd' = [snd EXCEPT !.next_to_send = snd.base]
    ELSE IF f.ft = TYPE_ACK /\ f.msg_id = cfg.msg_id
         THEN /\ counters' = counters /\ pc' = "loop"
              /\ snd' = IF f.seq > snd.last_ack
                        THEN [snd EXCEPT !.last_ack = f.seq,
                                         !.base = Max(snd.base, f.seq + 1),
                                         !.timeouts_at_base =
                                             IF f.seq + 1 > snd.base THEN 0 ELSE @]
                        ELSE snd
    ELSE /\ counters' = counters /\ pc' = "wait" /\ snd' = snd

\* a sender that goes back to base on an ACK that is not new
GbnAckOutcome_resend_on_late(f) ==
    IF f.err # NoErr
    THEN /\ counters' = [counters EXCEPT !.crc_fail_total = Inc(@)]
         /\ pc' = "wait" /\ snd' = snd
    ELSE IF f.ft = TYPE_ACK /\ f.msg_id = cfg.msg_id
         THEN /\ counters' = counters /\ pc' = "loop"
              /\ snd' = IF f.seq > snd.last_ack
                        THEN [snd EXCEPT !.last_ack = f.seq,
                                         !.base = Max(snd.base, f.seq + 1),
                                         !.timeouts_at_base =
                                             IF f.seq + 1 > snd.base THEN 0 ELSE @]
                        ELSE [snd EXCEPT !.next_to_send = snd.base]
    ELSE /\ counters' = counters /\ pc' = "wait" /\ snd' = snd

\* lines 318-329 and 369-373: a valid ACK ends the wait and moves base
\* a sender that takes an ACK of seq as covering seq + 1 as well
GbnAckOutcome_ahead(f) ==
    IF f.err # NoErr
    THEN /\ counters' = [counters EXCEPT !.crc_fail_total = Inc(@)]
         /\ pc' = "wait" /\ snd' = snd
    ELSE IF f.ft = TYPE_ACK /\ f.msg_id = cfg.msg_id
         THEN /\ counters' = counters /\ pc' = "loop"
              /\ snd' = IF f.seq > snd.last_ack
                        THEN [snd EXCEPT !.last_ack = f.seq,
                                         !.base = Max(snd.base, f.seq + 2),
                                         !.timeouts_at_base =
                                             IF f.seq + 2 > snd.base THEN 0 ELSE @]
                        ELSE snd
    ELSE /\ counters' = counters /\ pc' = "wait" /\ snd' = snd

GbnAckOutcome(f) ==
    IF f.err # NoErr
    THEN /\ counters' = [counters EXCEPT !.crc_fail_total = Inc(@)]
         /\ pc' = "wait" /\ snd' = snd
    ELSE IF f.ft = TYPE_ACK /\ f.msg_id = cfg.msg_id
         THEN /\ counters' = counters /\ pc' = "loop"
              /\ snd' = IF f.seq > snd.last_ack
                        THEN [snd EXCEPT !.last_ack = f.seq,
                                         !.base = Max(snd.base, f.seq + 1),
                                         !.timeouts_at_base =
                                             IF f.seq + 1 > snd.base THEN 0 ELSE @]
                        ELSE snd
    ELSE /\ counters' = counters /\ pc' = "wait" /\ snd' = snd

\* lines 310-329: take one ACK from the ACK channel
GbnRecvAck(corrupt, draw) ==
    /\ variant = "gbn" /\ pc = "recv" /\ q_ack # <<>>
    /\ corrupt \in Draw(cfg.corrupt_ack_prob)
    /\ draw \in CorruptDraws(Head(q_ack))
    /\ q_ack' = Tail(q_ack)
    /\ \E f \in {ReceiveFrame(Head(q_ack), corrupt, draw)} : GbnAckOutcome(f)
    /\ UNCHANGED <<rng, variant, cfg, frames, q_data, rx, clock, result>>

\* the draws a corruption can make on any text of the run
AnyDraw == UNION {CorruptDraws([i \in 1..n |-> 0]) : n \in 0..40}

NextGBN ==
    \/ GbnStart
    \/ GbnLoop
    \/ \E dropped \in BOOLEAN : GbnSendData(dropped)
    \/ GbnFillDone
    \/ \E corrupt \in BOOLEAN, dropped \in BOOLEAN, draw \in AnyDraw :
          GbnPumpFrame(corrupt, draw, dropped)
    \/ GbnPumpDone
    \/ GbnWait
    \/ GbnSleep
    \/ \E corrupt \in BOOLEAN, draw \in AnyDraw : GbnRecvAck(corrupt, draw)

SpecGBN == (InitGBN \/ InitGBNBadArgs) /\ [][NextGBN]_vars

(***************************************************************************)
(* scripts/arq_stop_and_wait.py: ReceiverState                             *)
(***************************************************************************)
ReceiverState(msg_id) ==
    [msg_id |-> msg_id, got_parts |-> EmptyDict, expected_total |-> None,
     assembled |-> None]

\* lines 197-203: the part is stored, then reassembly is tried
OnDataFrameStored(s2, f, a) ==
    IF a.err # NoErr THEN [err |-> a.err, self |-> s2, ret |-> None]
    ELSE [err |-> NoErr,
          self |-> IF a.value # None THEN [s2 EXCEPT !.assembled = a.value] ELSE s2,
          ret |-> Some(<<f.msg_id, f.seq, f.total>>)]

OnDataFrameStore(s1, f) ==
    Once([s1 EXCEPT !.got_parts = DictSet(@, f.seq, f.payload)],
         LAMBDA s2 :
             Once(reassemble_frames(s2.got_parts, Get(s2.expected_total)),
                  LAMBDA a : OnDataFrameStored(s2, f, a)))

OnDataFrameUnpacked(self, f) ==
    IF f.err # NoErr THEN [err |-> f.err, self |-> self, ret |-> None]
    ELSE IF f.ft # TYPE_DATA \/ f.msg_id # self.msg_id
         THEN [err |-> NoErr, self |-> self, ret |-> None]
    ELSE OnDataFrameStore(IF self.expected_total = None
                          THEN [self EXCEPT !.expected_total = Some(f.total)]
                          ELSE self, f)

\* returns [err, self, ret]: the exception if one is raised, the receiver as
\* it is left, and the returned (mid, seq, total) or None
ReceiverState_on_data_frame(self, raw_frame) ==
    Once(unpack_frame(raw_frame), LAMBDA f : OnDataFrameUnpacked(self, f))

(***************************************************************************)
(* scripts/arq_stop_and_wait.py: run_once                                  *)
(***************************************************************************)
SnwCfg(in, ch, r, t) ==
    [payload |-> in.payload, max_payload |-> in.max_payload, msg_id |-> 1,
     drop_data |-> ch.drop_data, drop_ack |-> ch.drop_ack,
     corrupt_data_prob |-> ch.corrupt_data_prob, corrupt_ack_prob |-> ch.corrupt_ack_prob,
     timeout_s |-> t, max_retries |-> r]

SnwInitState ==
    /\ variant = "snw"
    /\ frames = <<>> /\ q_data = <<>> /\ q_ack = <<>>
    /\ rx = ReceiverState(cfg.msg_id)
    /\ snd = [idx |-> 0, seq |-> 0, total |-> 0, retries |-> 0, ret |-> "none"]
    /\ counters = [retries_total |-> 0, crc_fail_total |-> 0, data_sent |-> 0,
                   data_dropped |-> 0, ack_sent |-> 0, ack_dropped |-> 0]
    /\ clock = [remaining |-> 0, phy_seconds |-> 0]
    /\ pc = "start" /\ result = NoResult /\ rng = Unused

BadInput == [payload |-> <<104>>, max_payload |-> 0]
Lossless ==
    CHOOSE ch \in Channels : /\ ch.drop_data = 0 /\ ch.drop_ack = 0
                             /\ ch.corrupt_data_prob = 0 /\ ch.corrupt_ack_prob = 0

InitSnW ==
    /\ \/ \E in \in RunInputs, ch \in Channels, r \in 1..MaxRetries, t \in 0..MaxTimeout :
             cfg = SnwCfg(in, ch, r, t)
       \/ cfg = SnwCfg(BadInput, Lossless, 1, 1)
    /\ SnwInitState

SnwStarted(r) ==
    IF r.err # NoErr
    THEN /\ result' = r /\ pc' = "raised" /\ frames' = frames
    ELSE /\ frames' = r.frames /\ pc' = "frame" /\ result' = result

\* line 320: fragment_message
SnwStart ==
    /\ variant = "snw" /\ pc = "start"
    /\ \E r \in {fragment_message(cfg.payload, cfg.msg_id, cfg.max_payload)} :
          SnwStarted(r)
    /\ UNCHANGED <<rng, variant, cfg, q_data, q_ack, rx, snd, counters, clock>>

SnwFrameChecked(f) ==
    IF f.err # NoErr
    THEN /\ result' = f /\ pc' = "raised" /\ snd' = snd
    ELSE IF f.ft # TYPE_DATA \/ f.msg_id # cfg.msg_id
         THEN /\ result' = Raise("Unexpected frame in fragmentation result")
              /\ pc' = "raised" /\ snd' = snd
    ELSE /\ snd' = [snd EXCEPT !.seq = f.seq, !.total = f.total, !.retries = 0]
         /\ pc' = "send" /\ result' = result

\* lines 323-330: the next frame of the for loop, or line 350 after the last
SnwNextFrame ==
    /\ variant = "snw" /\ pc = "frame"
    /\ IF snd.idx < frames_total
       THEN \E f \in {unpack_frame(frames[snd.idx + 1])} : SnwFrameChecked(f)
       ELSE /\ pc' = "pump" /\ snd' = [snd EXCEPT !.ret = "finish"]
            /\ result' = result
    /\ UNCHANGED <<rng, variant, cfg, frames, q_data, q_ack, rx, counters, clock>>

\* a data channel that queues the frame it reports as dropped
SnwTransmit_queues_dropped(tx, dropped) ==
    /\ clock' = [clock EXCEPT !.phy_seconds = Add(@, tx.dur_s)]
    /\ counters' = [counters EXCEPT !.data_sent = Inc(@),
                                    !.data_dropped = IF dropped THEN Inc(@) ELSE @]
    /\ q_data' = Enqueue(q_data, tx.pcm)

\* lines 332-337: the encoded frame goes to the data channel
SnwTransmit(tx, dropped) ==
    /\ clock' = [clock EXCEPT !.phy_seconds = Add(@, tx.dur_s)]
    /\ counters' = [counters EXCEPT !.data_sent = Inc(@),
                                    !.data_dropped = IF dropped THEN Inc(@) ELSE @]
    /\ q_data' = IF dropped THEN q_data ELSE Enqueue(q_data, tx.pcm)

\* lines 332-339: one transmission of the current frame, then receiver_pump
SnwSendData(dropped) ==
    /\ variant = "snw" /\ pc = "send"
    /\ dropped \in Draw(cfg.drop_data)
    /\ \E tx \in {phy_encode_text(b64encode(frames[snd.idx + 1]))} :
          SnwTransmit(tx, dropped)
    /\ pc' = "pump" /\ snd' = [snd EXCEPT !.ret = "wait"]
    /\ UNCHANGED <<rng, variant, cfg, frames, q_ack, rx, result>>

\* a receiver that does not count the ACKs it sends
SnwSendAck_uncounted(ack_frame, tx, dropped) ==
    IF ack_frame.err # NoErr
    THEN /\ counters' = [counters EXCEPT !.crc_fail_total = Inc(@)]
         /\ q_ack' = q_ack /\ clock' = clock
    ELSE /\ clock' = [clock EXCEPT !.phy_seconds = Add(@, tx.dur_s)]
         /\ counters' = [counters EXCEPT !.ack_dropped = IF dropped THEN Inc(@) ELSE @]
         /\ q_ack' = IF dropped THEN q_ack ELSE Enqueue(q_ack, tx.pcm)

\* lines 271-279: the packed ACK goes to the ACK channel, or pack_ack raised
SnwSendAck(ack_frame, tx, dropped) ==
    IF ack_frame.err # NoErr
    THEN /\ counters' = [counters EXCEPT !.crc_fail_total = Inc(@)]
         /\ q_ack' = q_ack /\ clock' = clock
    ELSE /\ clock' = [clock EXCEPT !.phy_seconds = Add(@, tx.dur_s)]
         /\ counters' = [counters EXCEPT !.ack_sent = Inc(@),
                                         !.ack_dropped = IF dropped THEN Inc(@) ELSE @]
         /\ q_ack' = IF dropped THEN q_ack ELSE Enqueue(q_ack, tx.pcm)

SnwAckOf(ack_frame, dropped) ==
    \E tx \in {IF ack_frame.err # NoErr THEN phy_encode_text(<<>>)
                ELSE phy_encode_text(b64encode(ack_frame.raw))} :
        SnwSendAck(ack_frame, tx, dropped)

\* lines 265-284: what on_data_frame did decides the rest of the turn
SnwPumpOutcome(od, dropped) ==
    /\ rx' = od.self
    /\ IF od.err # NoErr
       THEN /\ counters' = [counters EXCEPT !.crc_fail_total = Inc(@)]
            /\ q_ack' = q_ack /\ clock' = clock
       ELSE IF od.ret = None
            THEN /\ counters' = counters /\ q_ack' = q_ack /\ clock' = clock
       ELSE \E ack_frame \in {pack_ack(Get(od.ret)[1], Get(od.ret)[2], Get(od.ret)[3])} :
               SnwAckOf(ack_frame, dropped)

SnwOnDecoded(b) ==
    IF b.err # NoErr THEN [err |-> b.err, self |-> rx, ret |-> None]
    ELSE ReceiverState_on_data_frame(rx, b.raw)

\* lines 256-266: from the samples to what on_data_frame did
SnwReceive(pcm, corrupt, draw) ==
    Once(b64decode(Received(pcm, corrupt, draw)), SnwOnDecoded)

\* lines 251-284: one turn of receiver_pump's loop
SnwPumpFrame(corrupt, draw, dropped) ==
    /\ variant = "snw" /\ pc = "pump" /\ q_data # <<>>
    /\ corrupt \in Draw(cfg.corrupt_data_prob)
    /\ dropped \in Draw(cfg.drop_ack)
    /\ draw \in CorruptDraws(Head(q_data))
    /\ q_data' = Tail(q_data)
    /\ \E od \in {SnwReceive(Head(q_data), corrupt, draw)} : SnwPumpOutcome(od, dropped)
    /\ UNCHANGED <<rng, variant, cfg, frames, snd, pc, result>>

\* lines 352-375: the RunResult
SnwRunResult ==
    [err |-> NoErr, ok |-> (rx.assembled = Some(cfg.payload)),
     frames_total |-> frames_total,
     retries_total |-> counters.retries_total,
     crc_fail_total |-> counters.crc_fail_total,
     data_sent |-> counters.data_sent, data_dropped |-> counters.data_dropped,
     ack_sent |-> counters.ack_sent, ack_dropped |-> counters.ack_dropped,
     phy_seconds |-> clock.phy_seconds,
     virtual_seconds |-> Add(clock.phy_seconds, counters.retries_total * cfg.timeout_s)]

\* a sender whose wait has ended before it starts
SnwPumpDone_no_wait ==
    /\ variant = "snw" /\ pc = "pump" /\ q_data = <<>>
    /\ IF snd.ret = "wait"
       THEN /\ pc' = "wait" /\ clock' = [clock EXCEPT !.remaining = 0]
            /\ result' = result
       ELSE IF snd.ret = "recv"
            THEN /\ pc' = "recv" /\ clock' = clock /\ result' = result
       ELSE /\ pc' = "done" /\ clock' = clock /\ result' = SnwRunResult
    /\ UNCHANGED <<rng, variant, cfg, frames, q_data, q_ack, rx, snd, counters>>

\* lines 252-254: the data channel is empty, receiver_pump returns to where it
\* was called: before the wait (339-341), in the wait (291-293), at the end (350)
SnwPumpDone ==
    /\ variant = "snw" /\ pc = "pump" /\ q_data = <<>>
    /\ IF snd.ret = "wait"
       THEN /\ pc' = "wait" /\ clock' = [clock EXCEPT !.remaining = cfg.timeout_s]
            /\ result' = result
       ELSE IF snd.ret = "recv"
            THEN /\ pc' = "recv" /\ clock' = clock /\ result' = result
       ELSE /\ pc' = "done" /\ clock' = clock /\ result' = SnwRunResult
    /\ UNCHANGED <<rng, variant, cfg, frames, q_data, q_ack, rx, snd, counters>>

\* line 290: while time.time() < deadline, and lines 342-348 when it is not
SnwWait ==
    /\ variant = "snw" /\ pc = "wait"
    /\ IF clock.remaining > 0
       THEN /\ pc' = "pump" /\ snd' = [snd EXCEPT !.ret = "recv"]
            /\ counters' = counters /\ result' = result
       ELSE /\ counters' = [counters EXCEPT !.retries_total = Inc(@)]
            /\ snd' = [snd EXCEPT !.retries = Inc(@)]
            /\ IF snd.retries + 1 >= cfg.max_retries
               THEN /\ result' = Raise("Too many retries") /\ pc' = "raised"
               ELSE /\ pc' = "send" /\ result' = result
    /\ UNCHANGED <<rng, variant, cfg, frames, q_data, q_ack, rx, clock>>

\* lines 293-296: nothing on the ACK channel, sleep a tick
SnwSleep ==
    /\ variant = "snw" /\ pc = "recv" /\ q_ack = <<>>
    /\ clock' = [clock EXCEPT !.remaining = @ - 1]
    /\ pc' = "wait"
    /\ UNCHANGED <<rng, variant, cfg, frames, q_data, q_ack, rx, snd, counters, result>>

\* lines 306-314: the ACK of the current frame ends the wait
SnwAckOutcome(f) ==
    IF f.err # NoErr
    THEN /\ counters' = [counters EXCEPT !.crc_fail_total = Inc(@)]
         /\ pc' = "wait" /\ snd' = snd
    ELSE IF f.ft = TYPE_ACK /\ f.msg_id = cfg.msg_id /\ f.seq = snd.seq
            /\ f.total = snd.total
         THEN /\ counters' = counters /\ pc' = "frame"
              /\ snd' = [snd EXCEPT !.idx = @ + 1]
    ELSE /\ counters' = counters /\ pc' = "wait" /\ snd' = snd

\* lines 293-314: take one ACK from the ACK channel
SnwRecvAck(corrupt, draw) ==
    /\ variant = "snw" /\ pc = "recv" /\ q_ack # <<>>
    /\ corrupt \in Draw(cfg.corrupt_ack_prob)
    /\ draw \in CorruptDraws(Head(q_ack))
    /\ q_ack' = Tail(q_ack)
    /\ \E f \in {ReceiveFrame(Head(q_ack), corrupt, draw)} : SnwAckOutcome(f)
    /\ UNCHANGED <<rng, variant, cfg, frames, q_data, rx, clock, result>>

NextSnW ==
    \/ SnwStart
    \/ SnwNextFrame
    \/ \E dropped \in BOOLEAN : SnwSendData(dropped)
    \/ \E corrupt \in BOOLEAN, dropped \in BOOLEAN, draw \in AnyDraw :
          SnwPumpFrame(corrupt, draw, dropped)
    \/ SnwPumpDone
    \/ SnwWait
    \/ SnwSleep
    \/ \E corrupt \in BOOLEAN, draw \in AnyDraw : SnwRecvAck(corrupt, draw)

(***************************************************************************)
(* scripts/measure_arq_fast_sim.py: EventQueue and run_once_sim.           *)
(* A queued item is [due, raw]: due is its delivery time less now_ms, and  *)
(* clock.deadline is deadline_ms less now_ms, so that advancing now_ms by  *)
(* d lowers every due and the deadline by d.                               *)
(***************************************************************************)
MaxDelay == 1
MaxTimeoutMs == 2

ChannelParams(drop_prob, corrupt_prob, delay_ms) ==
    [drop_prob |-> drop_prob, corrupt_prob |-> corrupt_prob, delay_ms |-> delay_ms]

\* EventQueue.pop_ready: the items with t <= now_ms, in order, and the rest
IsReady(item) == item.due <= 0
Ready(q) == SelectSeq(q, IsReady)
IsLater(item) == item.due > 0
Rest(q) == SelectSeq(q, IsLater)
FirstReady(q) == CHOOSE i \in 1..Len(q) : IsReady(q[i]) /\ \A j \in 1..(i - 1) : ~IsReady(q[j])
WithoutItem(q, i) == SubSeq(q, 1, i - 1) \o SubSeq(q, i + 1, Len(q))

\* the payloads of the items of q, in order
Raws(q) == [i \in 1..Len(q) |-> q[i].raw]

\* an EventQueue.pop_ready that returns the newest ready entry first
pop_ready_newest_first(q) ==
    IF q = <<>> THEN [ready |-> <<>>, items |-> q]
    ELSE [ready |-> [i \in 1..Len(Ready(q)) |-> Ready(q)[Len(Ready(q)) + 1 - i].raw],
          items |-> Rest(q)]

\* EventQueue.pop_ready (lines 75-86): returns [ready, items], the payloads
\* it returns and the items it leaves in the queue
pop_ready(q) ==
    IF q = <<>> THEN [ready |-> <<>>, items |-> q]
    ELSE [ready |-> Raws(Ready(q)), items |-> Rest(q)]

\* EventQueue.next_time, less now_ms
next_time(q) ==
    IF q = <<>> THEN None
    ELSE Some(CHOOSE t \in {q[i].due : i \in 1..Len(q)} :
                 \A i \in 1..Len(q) : t <= q[i].due)

Later(q, d) == [i \in 1..Len(q) |-> [q[i] EXCEPT !.due = @ - d]]

\* the draws of _corrupt_bytes the model follows: the low byte of the length
\* field, the first byte, the last byte
CorruptBits(len) ==
    IF len = 0 THEN {<<0, 0>>} ELSE {<<13, 2>>, <<0, 0>>, <<len - 1, 7>>}
AnyBits == UNION {CorruptBits(n) : n \in 0..30}

\* a channel that drops whatever the draw
send_over_channel_lossy(q, raw, ch, dropped, corrupt, bits) == q

\* a channel that queues twice what it is given
send_over_channel_twice(q, raw, ch, dropped, corrupt, bits) ==
    IF dropped THEN q
    ELSE Enqueue(q, [due |-> ch.delay_ms, raw |-> raw])
         \o <<[due |-> ch.delay_ms, raw |-> raw]>>

\* lines 128-134
send_over_channel(q, raw, ch, dropped, corrupt, bits) ==
    IF dropped THEN q
    ELSE Enqueue(q, [due |-> ch.delay_ms,
                     raw |-> IF ch.corrupt_prob > 0 /\ corrupt
                             THEN corrupt_bytes(raw, bits[1], bits[2]) ELSE raw])

\* lines 129-132 and 56-57: the outputs of rng that one send_over_channel
\* consumes, in order: random() < drop_prob, then, if the frame is not dropped
\* and corrupt_prob > 0, random() < corrupt_prob, then, if the frame is
\* corrupted and not empty, randrange(len) and randrange(8)
SimDraws(raw, ch, dropped, corrupt, bits) ==
    IF dropped \/ ch.corrupt_prob <= 0 THEN <<dropped>>
    ELSE IF ~corrupt \/ Len(raw) = 0 THEN <<dropped, corrupt>>
    ELSE <<dropped, corrupt, bits[1], bits[2]>>

\* line 111: rng = random.Random(seed).  The outputs of the generator are a
\* function of the seed alone.  Where a run is to be repeated with the same
\* seed, the outputs d that the first execution consumes are recorded in
\* rng.out, and the second execution consumes them from rng.out in the same
\* order; in a run that is not repeated the outputs are not followed.
TakeDraws(d) ==
    IF rng = Unused THEN rng' = rng
    ELSE IF rng.execution = 1 THEN rng' = [rng EXCEPT !.out = @ \o d]
    ELSE /\ rng.pos + Len(d) <= Len(rng.out)
         /\ SubSeq(rng.out, rng.pos + 1, rng.pos + Len(d)) = d
         /\ rng' = [rng EXCEPT !.pos = @ + Len(d)]

SimCfg(in, ch, r, t, dd, da) ==
    [payload |-> in.payload, max_payload |-> in.max_payload, msg_id |-> 1,
     timeout_ms |-> t, max_retries |-> r,
     data_ch |-> ChannelParams(ch.drop_data, ch.corrupt_data_prob, dd),
     ack_ch |-> ChannelParams(ch.drop_ack, ch.corrupt_ack_prob, da)]

SimInitState ==
    /\ variant = "sim"
    /\ frames = <<>> /\ q_data = <<>> /\ q_ack = <<>>
    /\ rx = [got_parts |-> EmptyDict, expected_total |-> None]
    /\ snd = [idx |-> 0, seq |-> 0, total |-> 0, tries |-> 0, ret |-> "none"]
    /\ counters = [retries_total |-> 0, crc_fail_total |-> 0]
    /\ clock = [now_ms |-> 0, deadline |-> 0]
    /\ pc = "start" /\ result = NoResult /\ rng = Unused

InitSim ==
    /\ \/ \E in \in RunInputs, ch \in Channels, r \in 1..MaxRetries,
             t \in 0..MaxTimeoutMs, dd \in 0..MaxDelay, da \in 0..MaxDelay :
             cfg = SimCfg(in, ch, r, t, dd, da)
       \/ cfg = SimCfg(BadInput, Lossless, 1, 1, 0, 0)
    /\ SimInitState

SimResult(ok) ==
    [err |-> NoErr, ok |-> ok, time_ms |-> clock.now_ms,
     retries_total |-> counters.retries_total,
     crc_fail_total |-> counters.crc_fail_total]

SimStarted(r) ==
    IF r.err # NoErr
    THEN /\ result' = r /\ pc' = "raised" /\ frames' = frames
    ELSE /\ frames' = r.frames /\ pc' = "frame" /\ result' = result

\* line 125: fragment_message
SimStart ==
    /\ variant = "sim" /\ pc = "start"
    /\ \E r \in {fragment_message(cfg.payload, cfg.msg_id, cfg.max_payload)} :
          SimStarted(r)
    /\ UNCHANGED <<rng, variant, cfg, q_data, q_ack, rx, snd, counters, clock>>

\* a sender that carries the retries of one seq over to the next
SimFrameChecked_carried(f) ==
    IF f.err # NoErr
    THEN /\ result' = f /\ pc' = "raised" /\ snd' = snd
    ELSE IF f.ft # TYPE_DATA \/ f.msg_id # cfg.msg_id
         THEN /\ result' = SimResult(FALSE) /\ pc' = "done" /\ snd' = snd
    ELSE /\ snd' = [snd EXCEPT !.seq = f.seq, !.total = f.total]
         /\ pc' = "send" /\ result' = result

SimFrameChecked(f) ==
    IF f.err # NoErr
    THEN /\ result' = f /\ pc' = "raised" /\ snd' = snd
    ELSE IF f.ft # TYPE_DATA \/ f.msg_id # cfg.msg_id
         THEN /\ result' = SimResult(FALSE) /\ pc' = "done" /\ snd' = snd
    ELSE /\ snd' = [snd EXCEPT !.seq = f.seq, !.total = f.total, !.tries = 0]
         /\ pc' = "send" /\ result' = result

\* lines 198-203: the next frame of the for loop, or line 217 after the last
SimNextFrame ==
    /\ variant = "sim" /\ pc = "frame"
    /\ IF snd.idx < frames_total
       THEN \E f \in {unpack_frame(frames[snd.idx + 1])} : SimFrameChecked(f)
       ELSE /\ pc' = "pump" /\ snd' = [snd EXCEPT !.ret = "finish"]
            /\ result' = result
    /\ UNCHANGED <<rng, variant, cfg, frames, q_data, q_ack, rx, counters, clock>>

\* lines 205-207: send_over_channel(q_data, raw_frame, data_ch), and the
\* deadline of the wait
SimSendData(dropped, corrupt, bits) ==
    /\ variant = "sim" /\ pc = "send"
    /\ dropped \in Draw(cfg.data_ch.drop_prob)
    /\ corrupt \in Draw(cfg.data_ch.corrupt_prob)
    /\ bits \in CorruptBits(Len(frames[snd.idx + 1]))
    /\ q_data' = send_over_channel(q_data, frames[snd.idx + 1], cfg.data_ch,
                                   dropped, corrupt, bits)
    /\ TakeDraws(SimDraws(frames[snd.idx + 1], cfg.data_ch, dropped, corrupt, bits))
    /\ clock' = [clock EXCEPT !.deadline = cfg.timeout_ms]
    /\ pc' = "wait"
    /\ UNCHANGED <<variant, cfg, frames, q_ack, rx, snd, counters, result>>

\* a sender that gives up only when tries equals max_retries, or, with a
\* budget it cannot equal, after MaxRetries + 2 tries
SimWait_exact_budget ==
    /\ variant = "sim" /\ pc = "wait"
    /\ IF clock.deadline >= 0
       THEN /\ pc' = "pump" /\ snd' = [snd EXCEPT !.ret = "recv"]
            /\ counters' = counters /\ result' = result
       ELSE /\ counters' = [counters EXCEPT !.retries_total = Inc(@)]
            /\ snd' = [snd EXCEPT !.tries = Inc(@)]
            /\ IF snd.tries + 1 = cfg.max_retries \/ snd.tries + 1 >= MaxRetries + 2
               THEN /\ result' = [SimResult(FALSE) EXCEPT
                                     !.retries_total = Inc(counters.retries_total)]
                    /\ pc' = "done"
               ELSE /\ pc' = "send" /\ result' = result
    /\ UNCHANGED <<rng, variant, cfg, frames, q_data, q_ack, rx, clock>>

\* line 161: while now_ms <= deadline_ms, and lines 208-214 when it is not
SimWait ==
    /\ variant = "sim" /\ pc = "wait"
    /\ IF clock.deadline >= 0
       THEN /\ pc' = "pump" /\ snd' = [snd EXCEPT !.ret = "recv"]
            /\ counters' = counters /\ result' = result
       ELSE /\ counters' = [counters EXCEPT !.retries_total = Inc(@)]
            /\ snd' = [snd EXCEPT !.tries = Inc(@)]
            /\ IF snd.tries + 1 >= cfg.max_retries
               THEN /\ result' = [SimResult(FALSE) EXCEPT
                                     !.retries_total = Inc(counters.retries_total)]
                    /\ pc' = "done"
               ELSE /\ pc' = "send" /\ result' = result
    /\ UNCHANGED <<rng, variant, cfg, frames, q_data, q_ack, rx, clock>>

\* an ACK channel whose decisions come from a generator of its own
SimSendAck_own_generator(ack_frame, dropped, corrupt, bits) ==
    IF ack_frame.err # NoErr
    THEN /\ counters' = [counters EXCEPT !.crc_fail_total = Inc(@)]
         /\ q_ack' = q_ack /\ TakeDraws(<<>>)
    ELSE /\ counters' = counters
         /\ q_ack' = send_over_channel(q_ack, ack_frame.raw, cfg.ack_ch,
                                       dropped, corrupt, bits)
         /\ TakeDraws(<<>>)

\* lines 150-153: the ACK of a stored part goes over the ACK channel
SimSendAck(ack_frame, dropped, corrupt, bits) ==
    IF ack_frame.err # NoErr
    THEN /\ counters' = [counters EXCEPT !.crc_fail_total = Inc(@)]
         /\ q_ack' = q_ack /\ TakeDraws(<<>>)
    ELSE /\ counters' = counters
         /\ q_ack' = send_over_channel(q_ack, ack_frame.raw, cfg.ack_ch,
                                       dropped, corrupt, bits)
         /\ TakeDraws(SimDraws(ack_frame.raw, cfg.ack_ch, dropped, corrupt, bits))

\* lines 141-158: one frame of receiver_pump's loop
SimPumpOutcome(f, dropped, corrupt, bits) ==
    IF f.err # NoErr
    THEN /\ counters' = [counters EXCEPT !.crc_fail_total = Inc(@)]
         /\ q_ack' = q_ack /\ rx' = rx /\ TakeDraws(<<>>)
    ELSE IF f.ft # TYPE_DATA \/ f.msg_id # cfg.msg_id
         THEN /\ counters' = counters /\ q_ack' = q_ack /\ rx' = rx /\ TakeDraws(<<>>)
    ELSE /\ rx' = [rx EXCEPT !.expected_total = IF @ = None THEN Some(f.total) ELSE @,
                             !.got_parts = DictSet(@, f.seq, f.payload)]
         /\ \E ack_frame \in {pack_ack(f.msg_id, f.seq, f.total)} :
               SimSendAck(ack_frame, dropped, corrupt, bits)

SimPumpFrame(dropped, corrupt, bits) ==
    /\ variant = "sim" /\ pc = "pump" /\ Ready(q_data) # <<>>
    /\ dropped \in Draw(cfg.ack_ch.drop_prob)
    /\ corrupt \in Draw(cfg.ack_ch.corrupt_prob)
    /\ bits \in CorruptBits(HDR_LEN + 4)
    /\ q_data' = WithoutItem(q_data, FirstReady(q_data))
    /\ \E f \in {unpack_frame(q_data[FirstReady(q_data)].raw)} :
          SimPumpOutcome(f, dropped, corrupt, bits)
    /\ UNCHANGED <<variant, cfg, frames, snd, clock, pc, result>>

\* lines 216-234: reassembly and the RunResult
SimFinished(a) ==
    IF a.err # NoErr
    THEN /\ result' = a /\ pc' = "raised"
    ELSE /\ result' = [SimResult(a.value = Some(cfg.payload)) EXCEPT
                          !.time_ms = Max(1, clock.now_ms)]
         /\ pc' = "done"

\* line 141: nothing more has arrived, receiver_pump returns to where it was
\* called: in the wait (162-165) or at the end (217-220)
SimPumpDone ==
    /\ variant = "sim" /\ pc = "pump" /\ Ready(q_data) = <<>>
    /\ IF snd.ret = "recv"
       THEN /\ pc' = "acks" /\ result' = result
       ELSE \E a \in {IF rx.expected_total # None
                       THEN reassemble_frames(rx.got_parts, Get(rx.expected_total))
                       ELSE [err |-> NoErr, value |-> None]} :
               SimFinished(a)
    /\ UNCHANGED <<rng, variant, cfg, frames, q_data, q_ack, rx, snd, counters, clock>>

\* lines 165-172: an arrived ACK; the ACK of the current frame ends the wait,
\* and the ACKs popped with it are gone
\* a sender that takes any ACK of the message for the ACK of its frame
SimAckOutcome_any_seq(f, i) ==
    IF f.err # NoErr
    THEN /\ counters' = [counters EXCEPT !.crc_fail_total = Inc(@)]
         /\ q_ack' = WithoutItem(q_ack, i)
         /\ pc' = pc /\ snd' = snd
    ELSE IF f.ft = TYPE_ACK /\ f.msg_id = cfg.msg_id /\ f.total = snd.total
         THEN /\ counters' = counters /\ q_ack' = Rest(q_ack)
              /\ pc' = "frame" /\ snd' = [snd EXCEPT !.idx = @ + 1]
    ELSE /\ counters' = counters /\ q_ack' = WithoutItem(q_ack, i)
         /\ pc' = pc /\ snd' = snd

SimAckOutcome(f, i) ==
    IF f.err # NoErr
    THEN /\ counters' = [counters EXCEPT !.crc_fail_total = Inc(@)]
         /\ q_ack' = WithoutItem(q_ack, i)
         /\ pc' = pc /\ snd' = snd
    ELSE IF f.ft = TYPE_ACK /\ f.msg_id = cfg.msg_id /\ f.seq = snd.seq
            /\ f.total = snd.total
         THEN /\ counters' = counters /\ q_ack' = Rest(q_ack)
              /\ pc' = "frame" /\ snd' = [snd EXCEPT !.idx = @ + 1]
    ELSE /\ counters' = counters /\ q_ack' = WithoutItem(q_ack, i)
         /\ pc' = pc /\ snd' = snd

SimRecvAck ==
    /\ variant = "sim" /\ pc = "acks" /\ Ready(q_ack) # <<>>
    /\ \E i \in {FirstReady(q_ack)} :
          \E f \in {unpack_frame(q_ack[i].raw)} : SimAckOutcome(f, i)
    /\ UNCHANGED <<rng, variant, cfg, frames, q_data, rx, clock, result>>

\* a wait that moves to the next event however late it is
SimStep_uncapped(t1, t2) ==
    LET next_t == IF t1 # None /\ t2 # None THEN Some(Min(Get(t1), Get(t2)))
                  ELSE IF t2 = None THEN t1 ELSE t2
    IN  IF next_t = None THEN clock.deadline + 1
        ELSE IF Get(next_t) <= 0 THEN 1
        ELSE Get(next_t)

\* lines 174-193: the step of now_ms
SimStep(t1, t2) ==
    LET next_t == IF t1 # None /\ t2 # None THEN Some(Min(Get(t1), Get(t2)))
                  ELSE IF t2 = None THEN t1 ELSE t2
    IN  IF next_t = None THEN clock.deadline + 1
        ELSE IF Get(next_t) <= 0 THEN 1
        ELSE Min(Get(next_t), clock.deadline + 1)

SimAdvanced(d) ==
    /\ clock' = [now_ms |-> Add(clock.now_ms, d), deadline |-> clock.deadline - d]
    /\ q_data' = Later(q_data, d)
    /\ q_ack' = Later(q_ack, d)

\* lines 174-193: no ACK of the current frame has arrived, time moves to the
\* next event or past the deadline
SimAdvance ==
    /\ variant = "sim" /\ pc = "acks" /\ Ready(q_ack) = <<>>
    /\ \E d \in {SimStep(next_time(q_data), next_time(q_ack))} : SimAdvanced(d)
    /\ pc' = "wait"
    /\ UNCHANGED <<rng, variant, cfg, frames, rx, snd, counters, result>>

NextSim ==
    \/ SimStart
    \/ SimNextFrame
    \/ \E dropped \in BOOLEAN, corrupt \in BOOLEAN, bits \in AnyBits :
          SimSendData(dropped, corrupt, bits)
    \/ SimWait
    \/ \E dropped \in BOOLEAN, corrupt \in BOOLEAN, bits \in AnyBits :
          SimPumpFrame(dropped, corrupt, bits)
    \/ SimPumpDone
    \/ SimRecvAck
    \/ SimAdvance

SpecSnW == (InitSnW \/ InitSim) /\ [][NextSnW \/ NextSim]_vars

(***************************************************************************)
(* scripts/measure_arq.py: run_once                                        *)
(***************************************************************************)
\* the channels of measure_arq only drop
DropChannels == {ch \in Channels : ch.corrupt_data_prob = 0 /\ ch.corrupt_ack_prob = 0}

MsrCfg(in, ch, r, t) ==
    [payload |-> in.payload, max_payload |-> in.max_payload, msg_id |-> 1,
     drop_data |-> ch.drop_data, drop_ack |-> ch.drop_ack,
     timeout_s |-> t, max_retries |-> r]

MsrInitState ==
    /\ variant = "msr"
    /\ frames = <<>> /\ q_data = <<>> /\ q_ack = <<>>
    /\ rx = ReceiverState(cfg.msg_id)
    /\ snd = [idx |-> 0, seq |-> 0, total |-> 0, retries |-> 0, ret |-> "none"]
    /\ counters = [retries_total |-> 0, data_sent |-> 0, data_dropped |-> 0,
                   ack_sent |-> 0, ack_dropped |-> 0]
    /\ clock = [remaining |-> 0]
    /\ pc = "start" /\ result = NoResult /\ rng = Unused

InitMsr ==
    /\ \/ \E in \in RunInputs, ch \in DropChannels, r \in 1..MaxRetries, t \in 0..MaxTimeout :
             cfg = MsrCfg(in, ch, r, t)
       \/ cfg = MsrCfg(BadInput, Lossless, 1, 1)
    /\ MsrInitState

\* lines 292-302: the RunResult of a run that reached its end
MsrRunResult ==
    [err |-> NoErr, ok |-> (rx.assembled = Some(cfg.payload)),
     frames_total |-> frames_total,
     retries_total |-> counters.retries_total,
     data_sent |-> counters.data_sent, data_dropped |-> counters.data_dropped,
     ack_sent |-> counters.ack_sent, ack_dropped |-> counters.ack_dropped]

\* lines 304-318: the RunResult of a run that raised, with the counters c
MsrFailedResult(c) ==
    [err |-> NoErr, ok |-> FALSE, frames_total |-> 0,
     retries_total |-> c.retries_total,
     data_sent |-> c.data_sent, data_dropped |-> c.data_dropped,
     ack_sent |-> c.ack_sent, ack_dropped |-> c.ack_dropped]

MsrStarted(r) ==
    IF r.err # NoErr
    THEN /\ result' = MsrFailedResult(counters) /\ pc' = "done" /\ frames' = frames
    ELSE /\ frames' = r.frames /\ pc' = "frame" /\ result' = result

\* line 228: fragment_message
MsrStart ==
    /\ variant = "msr" /\ pc = "start"
    /\ \E r \in {fragment_message(cfg.payload, cfg.msg_id, cfg.max_payload)} :
          MsrStarted(r)
    /\ UNCHANGED <<rng, variant, cfg, q_data, q_ack, rx, snd, counters, clock>>

MsrFrameChecked(f) ==
    IF f.err # NoErr \/ f.ft # TYPE_DATA \/ f.msg_id # cfg.msg_id
    THEN /\ result' = MsrFailedResult(counters) /\ pc' = "done" /\ snd' = snd
    ELSE /\ snd' = [snd EXCEPT !.seq = f.seq, !.total = f.total, !.retries = 0]
         /\ pc' = "send" /\ result' = result

\* lines 233-240: the next frame of the for loop, or line 284 after the last
MsrNextFrame ==
    /\ variant = "msr" /\ pc = "frame"
    /\ IF snd.idx < frames_total
       THEN \E f \in {unpack_frame(frames[snd.idx + 1])} : MsrFrameChecked(f)
       ELSE /\ pc' = "pump" /\ snd' = [snd EXCEPT !.ret = "finish"]
            /\ result' = result
    /\ UNCHANGED <<rng, variant, cfg, frames, q_data, q_ack, rx, counters, clock>>

\* a data channel that lets a frame through whatever drop_data is
MsrSendData_leaky(dropped) ==
    /\ variant = "msr" /\ pc = "send"
    /\ counters' = [counters EXCEPT !.data_sent = Inc(@),
                                    !.data_dropped = IF dropped THEN Inc(@) ELSE @]
    /\ q_data' = IF dropped THEN q_data
                 ELSE Enqueue(q_data, phy_encode_text(b64encode(frames[snd.idx + 1])).pcm)
    /\ pc' = "pump" /\ snd' = [snd EXCEPT !.ret = "wait"]
    /\ UNCHANGED <<rng, variant, cfg, frames, q_ack, rx, clock, result>>

\* lines 243-248: one transmission of the current frame, then receiver_pump
MsrSendData(dropped) ==
    /\ variant = "msr" /\ pc = "send"
    /\ dropped \in Draw(cfg.drop_data)
    /\ counters' = [counters EXCEPT !.data_sent = Inc(@),
                                    !.data_dropped = IF dropped THEN Inc(@) ELSE @]
    /\ q_data' = IF dropped THEN q_data
                 ELSE Enqueue(q_data, phy_encode_text(b64encode(frames[snd.idx + 1])).pcm)
    /\ pc' = "pump" /\ snd' = [snd EXCEPT !.ret = "wait"]
    /\ UNCHANGED <<rng, variant, cfg, frames, q_ack, rx, clock, result>>

\* lines 217-222: the packed ACK goes to the ACK channel; a pack_ack that
\* raised is passed over (223-225)
MsrSendAck(ack_frame, dropped) ==
    IF ack_frame.err # NoErr
    THEN /\ counters' = counters /\ q_ack' = q_ack
    ELSE /\ counters' = [counters EXCEPT !.ack_sent = Inc(@),
                                         !.ack_dropped = IF dropped THEN Inc(@) ELSE @]
         /\ q_ack' = IF dropped THEN q_ack
                     ELSE Enqueue(q_ack, phy_encode_text(b64encode(ack_frame.raw)).pcm)

\* lines 210-225: what on_data_frame did decides the rest of the turn
MsrPumpOutcome(od, dropped) ==
    /\ rx' = od.self
    /\ IF od.err # NoErr \/ od.ret = None
       THEN /\ counters' = counters /\ q_ack' = q_ack
       ELSE \E ack_frame \in {pack_ack(Get(od.ret)[1], Get(od.ret)[2], Get(od.ret)[3])} :
               MsrSendAck(ack_frame, dropped)

\* lines 201-225: one turn of receiver_pump's loop
MsrPumpFrame(dropped) ==
    /\ variant = "msr" /\ pc = "pump" /\ q_data # <<>>
    /\ dropped \in Draw(cfg.drop_ack)
    /\ q_data' = Tail(q_data)
    /\ \E od \in {SnwReceive(Head(q_data), FALSE, <<0, 0, 0>>)} : MsrPumpOutcome(od, dropped)
    /\ UNCHANGED <<rng, variant, cfg, frames, snd, clock, pc, result>>

\* lines 203-204: the data channel is empty, receiver_pump returns to where it
\* was called: before the wait (248-251), in the wait (255), at the end (284)
MsrPumpDone ==
    /\ variant = "msr" /\ pc = "pump" /\ q_data = <<>>
    /\ IF snd.ret = "wait"
       THEN /\ pc' = "wait" /\ clock' = [clock EXCEPT !.remaining = cfg.timeout_s]
            /\ result' = result
       ELSE IF snd.ret = "recv"
            THEN /\ pc' = "recv" /\ clock' = clock /\ result' = result
       ELSE /\ pc' = "done" /\ clock' = clock /\ result' = MsrRunResult
    /\ UNCHANGED <<rng, variant, cfg, frames, q_data, q_ack, rx, snd, counters>>

\* a sender that leaves retries uncounted
MsrRetried_uncounted == counters

\* the counters after one more retry
MsrRetried == [counters EXCEPT !.retries_total = Inc(@)]

\* line 253: while time.time() < deadline, and lines 278-281 when it is not;
\* the RuntimeError of line 281 is caught at line 304
MsrWait ==
    /\ variant = "msr" /\ pc = "wait"
    /\ IF clock.remaining > 0
       THEN /\ pc' = "pump" /\ snd' = [snd EXCEPT !.ret = "recv"]
            /\ counters' = counters /\ result' = result
       ELSE /\ counters' = MsrRetried
            /\ snd' = [snd EXCEPT !.retries = Inc(@)]
            /\ IF snd.retries + 1 >= cfg.max_retries
               THEN /\ result' = MsrFailedResult(MsrRetried) /\ pc' = "done"
               ELSE /\ pc' = "send" /\ result' = result
    /\ UNCHANGED <<rng, variant, cfg, frames, q_data, q_ack, rx, clock>>

\* lines 257-260: nothing on the ACK channel, sleep a tick
MsrSleep ==
    /\ variant = "msr" /\ pc = "recv" /\ q_ack = <<>>
    /\ clock' = [clock EXCEPT !.remaining = @ - 1]
    /\ pc' = "wait"
    /\ UNCHANGED <<rng, variant, cfg, frames, q_data, q_ack, rx, snd, counters, result>>

\* lines 266-273: the ACK of the current frame ends the wait, any other ACK
\* and any ACK that does not decode is passed over
MsrAckOutcome(f) ==
    IF /\ f.err = NoErr /\ f.ft = TYPE_ACK /\ f.msg_id = cfg.msg_id
       /\ f.seq = snd.seq /\ f.total = snd.total
    THEN /\ pc' = "frame" /\ snd' = [snd EXCEPT !.idx = @ + 1]
    ELSE /\ pc' = "wait" /\ snd' = snd

\* lines 257-273: take one ACK from the ACK channel
MsrRecvAck ==
    /\ variant = "msr" /\ pc = "recv" /\ q_ack # <<>>
    /\ q_ack' = Tail(q_ack)
    /\ \E f \in {ReceiveFrame(Head(q_ack), FALSE, <<0, 0, 0>>)} : MsrAckOutcome(f)
    /\ UNCHANGED <<rng, variant, cfg, frames, q_data, rx, counters, clock, result>>

NextMsr ==
    \/ MsrStart
    \/ MsrNextFrame
    \/ \E dropped \in BOOLEAN : MsrSendData(dropped)
    \/ \E dropped \in BOOLEAN : MsrPumpFrame(dropped)
    \/ MsrPumpDone
    \/ MsrWait
    \/ MsrSleep
    \/ MsrRecvAck

\* the Stop-and-Wait runs of all three scripts
SpecSnWAll ==
    (InitSnW \/ InitSim \/ InitMsr) /\ [][NextSnW \/ NextSim \/ NextMsr]_vars

(***************************************************************************)
(* The functions of scripts/packet.py and the EventQueue of                *)
(* scripts/measure_arq_fast_sim.py, called on their own: cfg holds the     *)
(* function's name and its arguments, result what it returned or raised.   *)
(***************************************************************************)
CallInitState ==
    /\ variant = "call"
    /\ frames = <<>> /\ q_data = <<>> /\ q_ack = <<>>
    /\ rx = Unused /\ snd = Unused /\ counters = Unused /\ clock = Unused
    /\ pc = "start" /\ result = NoResult /\ rng = Unused

\* the values a 16-bit field is called with: the ends of its range, and the
\* first value beyond each end
FieldValues == {-1, 0, 65535, 65536}

\* a payload one byte longer than a frame can carry
TooLongPayload == [i \in 1..65536 |-> 0]

InitCallPackFrame ==
    /\ \E ft \in {TYPE_DATA, TYPE_ACK, 255, 256}, m \in FieldValues, s \in FieldValues,
          t \in FieldValues, p \in {<<>>, <<104, 105>>, TooLongPayload} :
          cfg = [fn |-> "pack_frame", frame_type |-> ft, msg_id |-> m, seq |-> s,
                 total |-> t, payload |-> p]
    /\ CallInitState

CallPackFrame ==
    /\ variant = "call" /\ pc = "start" /\ cfg.fn = "pack_frame"
    /\ result' = pack_frame(cfg.frame_type, cfg.msg_id, cfg.seq, cfg.total, cfg.payload)
    /\ pc' = "returned"
    /\ UNCHANGED <<rng, variant, cfg, frames, q_data, q_ack, rx, snd, counters, clock>>

InitCallFragment ==
    /\ \E p \in Payloads, m \in {0, 42, 65535}, k \in (-1)..MaxMaxPayload :
          cfg = [fn |-> "fragment_message", payload |-> p, msg_id |-> m, max_payload |-> k]
    /\ CallInitState

CallFragment ==
    /\ variant = "call" /\ pc = "start" /\ cfg.fn = "fragment_message"
    /\ result' = fragment_message(cfg.payload, cfg.msg_id, cfg.max_payload)
    /\ pc' = "returned"
    /\ UNCHANGED <<rng, variant, cfg, frames, q_data, q_ack, rx, snd, counters, clock>>

\* the keys of the maps reassemble_frames is called with are 0..MaxKey
MaxKey == 3

\* the part stored at seq: one byte that tells the seq, or nothing
PartsAt == { [k \in 0..MaxKey |-> <<100 + k>>],
             [k \in 0..MaxKey |-> IF k = 1 THEN <<>> ELSE <<100 + k, 255>>] }

InitCallReassemble ==
    /\ \E keys \in SUBSET (0..MaxKey), parts \in PartsAt, t \in (-1)..MaxKey :
          cfg = [fn |-> "reassemble_frames",
                 frames_payloads |-> [k \in keys |-> parts[k]], total |-> t]
    /\ CallInitState

CallReassemble ==
    /\ variant = "call" /\ pc = "start" /\ cfg.fn = "reassemble_frames"
    /\ result' = reassemble_frames(cfg.frames_payloads, cfg.total)
    /\ pc' = "returned"
    /\ UNCHANGED <<rng, variant, cfg, frames, q_data, q_ack, rx, snd, counters, clock>>

InitCalls == InitCallPackFrame \/ InitCallFragment \/ InitCallReassemble

NextCalls ==
    \/ CallPackFrame
    \/ CallFragment
    \/ CallReassemble

SpecCalls == InitCalls /\ [][NextCalls]_vars

\* the queues pop_ready is called on hold up to MaxQueue entries, each due
\* before now_ms, at now_ms or after it, its payload its place in the queue
MaxQueue == 3
QueuesOf(n) ==
    { [i \in 1..n |-> [due |-> dues[i], raw |-> <<i>>]] : dues \in [1..n -> {-1, 0, 1}] }

InitCallPopReady ==
    /\ \E n \in 0..MaxQueue : \E q \in QueuesOf(n) :
          cfg = [fn |-> "pop_ready", items |-> q]
    /\ CallInitState

CallPopReady ==
    /\ variant = "call" /\ pc = "start" /\ cfg.fn = "pop_ready"
    /\ result' = pop_ready(cfg.items)
    /\ pc' = "returned"
    /\ UNCHANGED <<rng, variant, cfg, frames, q_data, q_ack, rx, snd, counters, clock>>

\* EventQueue on its own, and in the runs of run_once_sim
SpecEventQueue == (InitCallPopReady \/ InitSim) /\ [][CallPopReady \/ NextSim]_vars

(***************************************************************************)
(* Two executions of run_once_sim with the same arguments, one after the   *)
(* other.                                                                  *)
(***************************************************************************)
\* the payloads that are sent twice: one fragment, and two
TwiceInputs == {in \in RunInputs : in.max_payload = 2}

InitSimTwice ==
    /\ \E in \in TwiceInputs, ch \in Channels, r \in 1..MaxRetries,
          t \in {0, MaxTimeoutMs}, d \in {0, MaxDelay} :
          cfg = SimCfg(in, ch, r, t, d, d)
    /\ variant = "sim"
    /\ frames = <<>> /\ q_data = <<>> /\ q_ack = <<>>
    /\ rx = [got_parts |-> EmptyDict, expected_total |-> None]
    /\ snd = [idx |-> 0, seq |-> 0, total |-> 0, tries |-> 0, ret |-> "none"]
    /\ counters = [retries_total |-> 0, crc_fail_total |-> 0]
    /\ clock = [now_ms |-> 0, deadline |-> 0]
    /\ pc = "start" /\ result = NoResult
    /\ rng = [execution |-> 1, out |-> <<>>, pos |-> 0, first |-> NoResult]

\* the first execution has ended; the second starts from lines 111-126 with
\* the same arguments, its generator seeded with the same seed
SecondExecution ==
    /\ variant = "sim" /\ rng # Unused /\ rng.execution = 1
    /\ pc \in {"done", "raised"}
    /\ rng' = [rng EXCEPT !.execution = 2, !.first = result]
    /\ frames' = <<>> /\ q_data' = <<>> /\ q_ack' = <<>>
    /\ rx' = [got_parts |-> EmptyDict, expected_total |-> None]
    /\ snd' = [idx |-> 0, seq |-> 0, total |-> 0, tries |-> 0, ret |-> "none"]
    /\ counters' = [retries_total |-> 0, crc_fail_total |-> 0]
    /\ clock' = [now_ms |-> 0, deadline |-> 0]
    /\ pc' = "start" /\ result' = NoResult
    /\ UNCHANGED <<variant, cfg>>

SpecSimTwice == InitSimTwice /\ [][NextSim \/ SecondExecution]_vars

\* runs of run_once_sim over channels slower than the timeout
MaxSlowDelay == 3
InitSimSlow ==
    /\ \E in \in TwiceInputs, ch \in Channels, r \in 1..MaxRetries,
          t \in 0..MaxTimeoutMs, dd \in {0, MaxSlowDelay}, da \in {0, MaxSlowDelay} :
          cfg = SimCfg(in, ch, r, t, dd, da)
    /\ SimInitState

SpecSimSlow == InitSimSlow /\ [][NextSim]_vars

Init == InitGBN \/ InitGBNBadArgs \/ InitSnW \/ InitSim
Next == NextGBN \/ NextSnW \/ NextSim
Spec == Init /\ [][Next]_vars

\* the runs of all four scripts
SpecRuns == (Init \/ InitMsr) /\ [][Next \/ NextMsr]_vars

(***************************************************************************)
(* Claims about the framing programs (checked under SpecPacket).           *)
(***************************************************************************)

\* C1: round-trip framing.  For every frame type in {DATA, ACK}, every msg_id,
\* seq and total in 0..0xFFFF and every payload, unpack_frame(pack_frame(type,
\* msg_id, seq, total, payload)) returns exactly (type, msg_id, seq, total, payload).
C1_RoundTripFraming ==
    (variant = "test_packet" /\ pc = "unpacked") =>
        result = [err |-> NoErr, ft |-> cfg.frame_type, msg_id |-> cfg.msg_id,
                  seq |-> cfg.seq, total |-> cfg.total, payload |-> cfg.payload]

\* a frame with the largest field values and a payload went round
C1_Witness ==
    /\ variant = "test_packet" /\ pc = "unpacked"
    /\ cfg.msg_id = 65535 /\ cfg.seq = 258 /\ cfg.total = 65535
    /\ Len(cfg.payload) = 2 /\ result.err = NoErr

\* C2: CRC detection.  For every frame made by pack_frame and every single bit
\* of it, unpack_frame of the frame with that bit flipped fails: a frame with
\* one flipped bit is never accepted.
C2_BitFlipNeverAccepted ==
    (variant = "test_packet" /\ pc = "unpacked_corrupt") => result.err # NoErr

\* C3: fragment round-trip.  For every payload P, msg_id m and max_payload k >= 1,
\* the payloads of the frames of fragment_message(P, m, k), stored by seq,
\* reassemble with total = max(1, ceil(|P|/k)) to exactly P.
CeilDiv(a, b) == (a + b - 1) \div b

LossChannels ==
    {ch \in Channels : /\ ch.drop_data < 100 /\ ch.drop_ack < 100
                       /\ ch.corrupt_data_prob = 0 /\ ch.corrupt_ack_prob = 0}

InitSnWFair ==
    \/ /\ \E in \in RunInputs, ch \in LossChannels, t \in 0..MaxTimeout :
             cfg = SnwCfg(in, ch, Unlimited, t)
       /\ SnwInitState
    \/ /\ \E in \in RunInputs, ch \in LossChannels, t \in 0..MaxTimeoutMs,
             dd \in 0..MaxDelay, da \in 0..MaxDelay :
             cfg = SimCfg(in, ch, Unlimited, t, dd, da)
       /\ SimInitState

FairSnW ==
    /\ WF_vars(NextSnW \/ NextSim)
    /\ SF_vars(SnwSendData(FALSE))
    /\ SF_vars(\E draw \in AnyDraw : SnwPumpFrame(FALSE, draw, FALSE))
    /\ SF_vars(\E bits \in AnyBits : SimSendData(FALSE, FALSE, bits))
    /\ SF_vars(\E bits \in AnyBits : SimPumpFrame(FALSE, FALSE, bits))

FairSpecSnW == InitSnWFair /\ [][NextSnW \/ NextSim]_vars /\ FairSnW

InitGBNFair ==
    /\ \E in \in RunInputs, ch \in LossChannels, w \in 1..MaxWindow, t \in 0..MaxTimeout :
          cfg = GbnCfg(in, ch, [max_timeouts |-> Some(Unlimited), max_retries |-> None],
                       w, t)
    /\ GbnInitState

\* the seq of the DATA frame at the head of the data channel
HeadSeq == unpack_frame(b64decode(Head(q_data)).raw).seq

FairGBN ==
    /\ WF_vars(NextGBN)
    /\ SF_vars(GbnSendData(FALSE))
    /\ SF_vars(GbnSendData(FALSE) /\ snd.next_to_send = rx.expected_seq)
    /\ SF_vars(\E draw \in AnyDraw : GbnPumpFrame(FALSE, draw, FALSE))
    /\ SF_vars(\E draw \in AnyDraw :
                  GbnPumpFrame(FALSE, draw, FALSE) /\ HeadSeq = rx.expected_seq)

FairSpecGBN == InitGBNFair /\ [][NextGBN]_vars /\ FairGBN

(***************************************************************************)
(* Claims about the ARQ runs                                               *)
(***************************************************************************)
Finished == pc \in {"done", "raised"}

\* every drop and corrupt probability of the run is 0
ZeroLoss ==
    IF variant = "sim"
    THEN /\ cfg.data_ch.drop_prob = 0 /\ cfg.data_ch.corrupt_prob = 0
         /\ cfg.ack_ch.drop_prob = 0 /\ cfg.ack_ch.corrupt_prob = 0
    ELSE /\ cfg.drop_data = 0 /\ cfg.drop_ack = 0
         /\ cfg.corrupt_data_prob = 0 /\ cfg.corrupt_ack_prob = 0

\* the timeout covers the way of a frame and of its ACK: the two delays of
\* the simulator, one poll of the wait loop of the wall-clock runs
TimeoutCoversRoundTrip ==
    IF variant = "sim" THEN cfg.timeout_ms >= cfg.data_ch.delay_ms + cfg.ack_ch.delay_ms
    ELSE cfg.timeout_s >= 1

ReturnsOkWithoutRetry ==
    /\ counters.retries_total = 0
    /\ Finished => pc = "done" /\ result.ok /\ result.retries_total = 0

\* C4 as stated: a Stop-and-Wait run (run_once_sim, run_once of
\* arq_stop_and_wait) with all drop and corrupt probabilities 0 returns
\* ok = true with retries_total = 0 for any payload, any max_payload >= 1 and
\* any timeout and channel delay.
C4_ZeroLossAnyTimeout ==
    (variant \in {"snw", "sim"} /\ ZeroLoss /\ cfg.max_payload >= 1)
        => ReturnsOkWithoutRetry

\* C4, amended: a Stop-and-Wait run with all drop and corrupt probabilities 0
\* whose timeout covers the round trip (timeout_ms >= data delay + ACK delay
\* in run_once_sim, timeout_s > 0 in arq_stop_and_wait) never retries and
\* returns ok = true with retries_total = 0, for any payload and any
\* max_payload >= 1.
C4_ZeroLossDelivery ==
    (variant \in {"snw", "sim"} /\ ZeroLoss /\ cfg.max_payload >= 1
        /\ TimeoutCoversRoundTrip)
        => ReturnsOkWithoutRetry

C4_Witness ==
    /\ variant = "sim" /\ ZeroLoss /\ pc = "done" /\ result.ok
    /\ result.retries_total = 0 /\ frames_total = 2
    /\ cfg.data_ch.delay_ms = 1 /\ cfg.ack_ch.delay_ms = 1 /\ cfg.timeout_ms = 2

ReturnsOkWithoutTimeout ==
    /\ counters.timeouts_total = 0
    /\ Finished => pc = "done" /\ result.ok /\ result.timeouts_total = 0

\* C5 as stated: run_once of arq_gbn with drop_data = drop_ack = 0 and both
\* corrupt probabilities 0 returns ok = true with timeouts_total = 0 for any
\* payload, any max_payload >= 1 and any window >= 1.
C5_GbnZeroLossAnyTimeout ==
    (variant = "gbn" /\ ZeroLoss /\ cfg.max_payload >= 1 /\ cfg.window >= 1)
        => ReturnsOkWithoutTimeout

\* C5, amended: with drop_data = drop_ack = 0, both corrupt probabilities 0
\* and timeout_s > 0, run_once of arq_gbn never times out and returns
\* ok = true with timeouts_total = 0, for any payload, any max_payload >= 1
\* and any window >= 1.
C5_GbnZeroLossDelivery ==
    (variant = "gbn" /\ ZeroLoss /\ cfg.max_payload >= 1 /\ cfg.window >= 1
        /\ cfg.timeout_s >= 1)
        => ReturnsOkWithoutTimeout

C5_Witness ==
    /\ variant = "gbn" /\ ZeroLoss /\ pc = "done" /\ result.ok
    /\ result.timeouts_total = 0 /\ frames_total = 3 /\ cfg.window = 2

AllAcked ==
    /\ pc = "done"
    /\ IF variant = "gbn" THEN snd.base >= frames_total ELSE snd.idx >= frames_total

\* C8: in Stop-and-Wait and in Go-Back-N, whenever the sender loop ends
\* because every fragment has been acknowledged, the receiver's reassembled
\* bytes equal the payload and the run reports ok = true.
C8_CompletionImpliesDelivery ==
    (variant \in {"gbn", "snw", "sim"} /\ AllAcked) => result.ok

\* C9: in every reachable state of GBNReceiver the key set of parts is
\* exactly {0, ..., expected_seq - 1}: no key >= expected_seq, and
\* expected_seq is the number of contiguous fragments received from 0.
C9_ReceiverInOrder ==
    variant = "gbn" =>
        /\ DOMAIN rx.parts = 0..(rx.expected_seq - 1)
        /\ Cardinality(DOMAIN rx.parts) = rx.expected_seq

\* a frame has been lost on the way and the receiver holds two parts
C9_Witness ==
    /\ variant = "gbn" /\ rx.expected_seq = 2 /\ frames_total = 3
    /\ counters.data_dropped >= 1 /\ counters.crc_fail_total >= 1

\* C10: over any sequence of sends, drops, ACKs and timeouts of run_once of
\* arq_gbn, base never decreases and last_ack never decreases.
C10_CumulativeAckMonotone ==
    [][variant = "gbn" => (snd'.base >= snd.base /\ snd'.last_ack >= snd.last_ack)]_vars

\* a cumulative ACK that is not new (a duplicate) is at the head of the ACK
\* channel, about to be read
C10_Witness ==
    /\ variant = "gbn" /\ pc = "recv" /\ q_ack # <<>>
    /\ snd.last_ack >= 0 /\ snd.base = snd.last_ack + 1
    /\ ReceiveFrame(Head(q_ack), FALSE, <<0, 0, 0>>).seq <= snd.last_ack

\* C11: at every point of the sender loop of run_once of arq_gbn,
\* 0 <= base <= next_to_send <= min(base + window, frames_total), and
\* last_ack is -1 or in 0..frames_total-1: base never exceeds frames_total and
\* at most window frames beyond base are sent and not acknowledged.
C11_SenderWindow ==
    variant = "gbn" =>
        /\ 0 <= snd.base /\ snd.base <= snd.next_to_send
        /\ snd.next_to_send <= Min(snd.base + cfg.window, frames_total)
        /\ (snd.last_ack = -1 \/ (0 <= snd.last_ack /\ snd.last_ack < frames_total))

\* the window has moved by one ACK after a timeout and is full again
C11_Witness ==
    /\ variant = "gbn" /\ frames_total = 3 /\ cfg.window = 2
    /\ snd.base = 1 /\ snd.next_to_send = 3 /\ snd.last_ack = 0
    /\ counters.timeouts_total >= 1

\* C13: the Go-Back-N receiver emits no ACK before the first in-order frame:
\* while expected_seq = 0, whatever DATA frames have arrived (a correctly
\* decoded one with seq # 0 included), no ACK has been transmitted (ack_sent
\* is 0 and the ACK channel is empty) and the sender has received none.
C13_NoAckBeforeFirstFrame ==
    (variant = "gbn" /\ rx.expected_seq = 0) =>
        /\ counters.ack_sent = 0 /\ q_ack = <<>>
        /\ snd.last_ack = -1 /\ snd.base = 0

\* frame 0 was dropped and frame 1, intact, has been taken by the receiver
C13_Witness ==
    /\ variant = "gbn" /\ rx.expected_seq = 0 /\ rx.total # None
    /\ cfg.corrupt_data_prob = 0 /\ cfg.window = 2
    /\ counters.data_sent = 2 /\ counters.data_dropped = 1
    /\ q_data = <<>> /\ counters.crc_fail_total = 1

\* the seqs of the ACKs queued on the ACK channel, as they decode intact
QueuedAckSeqs ==
    {ReceiveFrame(q_ack[i], FALSE, <<0, 0, 0>>).seq : i \in 1..Len(q_ack)}

MaxOf(S) == CHOOSE x \in S : \A y \in S : y <= x

\* C14: when several valid ACKs are queued on the ACK channel at the time the
\* Go-Back-N sender waits, the sender consumes all of them in that wait and
\* advances base by the maximum seq among them (base becomes max seq + 1),
\* not by the first one.
C14_ReadsAllPendingAcks ==
    [][(/\ variant = "gbn" /\ pc = "recv" /\ Len(q_ack) >= 2
        /\ cfg.corrupt_ack_prob = 0 /\ pc' = "loop")
          => (/\ q_ack' = <<>>
              /\ snd'.base = Max(snd.base, MaxOf(QueuedAckSeqs) + 1))]_vars

\* C20: unpack_frame rejects any input with bytes beyond the CRC: an input it
\* accepts ends exactly at the CRC, its length is 14 + L + 4 for the declared
\* payload length L.
C20_TrailingBytesRejected ==
    (/\ variant = "test_packet" /\ pc \in {"unpacked", "unpacked_corrupt"}
     /\ result.err = NoErr)
        => Len(q_data[1]) = HDR_LEN + Len(result.payload) + 4

\* the retries counted for the current seq (tries, retries in the source)
PerSeqRetries == IF variant = "sim" THEN snd.tries ELSE snd.retries

\* C16: in Stop-and-Wait (run_once_sim, run_once of arq_stop_and_wait) each
\* ACK timeout adds one to retries_total and to the retries of the current
\* seq, and the same frame is sent again unless the retries of that seq have
\* reached max_retries, which is exactly when the run fails; the retries of
\* a seq start at 0 for every new seq, retries_total goes on growing.
C16_PerSeqRetryBudget ==
    [][(variant \in {"snw", "sim"}) =>
       (/\ (pc = "frame" /\ pc' = "send") =>
               (PerSeqRetries' = 0 /\ counters'.retries_total = counters.retries_total)
        /\ (pc = "wait" /\ counters'.retries_total # counters.retries_total) =>
               /\ counters'.retries_total = counters.retries_total + 1
               /\ PerSeqRetries' = PerSeqRetries + 1
               /\ snd'.idx = snd.idx /\ q_data' = q_data
               /\ IF PerSeqRetries' >= cfg.max_retries
                  THEN pc' \in {"done", "raised"} ELSE pc' = "send"
        /\ (pc = "wait" /\ pc' \in {"done", "raised"}) =>
               /\ PerSeqRetries' = cfg.max_retries
               /\ counters'.retries_total = counters.retries_total + 1
               /\ (pc' = "done" => ~result'.ok))]_vars

\* the run fails on its second seq, after a retry of the first one
C16_Witness ==
    /\ variant = "sim" /\ pc = "done" /\ ~result.ok
    /\ snd.idx = 1 /\ snd.tries = 2 /\ cfg.max_retries = 2
    /\ result.retries_total = 3

\* the receiver's reassembly map (parts in arq_gbn, got_parts elsewhere)
ReassemblyMap == IF variant = "gbn" THEN rx.parts ELSE rx.got_parts

\* the frames waiting on both channels
QueuedFrames == Len(q_data) + Len(q_ack)

\* the frame that receiver_pump of run_once_sim is about to take fails decoding
SimDataFrameBad ==
    /\ variant = "sim" /\ pc = "pump" /\ Ready(q_data) # <<>>
    /\ unpack_frame(q_data[FirstReady(q_data)].raw).err # NoErr

TotalDataLoss ==
    \/ variant = "sim" /\ cfg.data_ch.drop_prob = 100
    \/ variant = "msr" /\ cfg.drop_data = 100

BudgetExhausted ==
    IF variant = "gbn" THEN counters.timeouts_total >= cfg.max_timeouts
    ELSE variant \in {"snw", "sim", "msr"} /\ PerSeqRetries >= cfg.max_retries

\* C18: in every run_once variant a run whose budget is used up has ended
\* by returning a RunResult with ok = false that holds the counters and the
\* frames_total of the run; it has not raised.
C18_FailureReturned ==
    BudgetExhausted =>
        /\ pc = "done" /\ result.err = NoErr /\ ~result.ok
        /\ \A k \in DOMAIN counters : result[k] = counters[k]
        /\ (variant # "sim" => result.frames_total = frames_total)

\* C15: a Go-Back-N run fails for too many timeouts only when the timeouts
\* counted since base last advanced have reached the budget.
C15_PerBaseBudget ==
    (variant = "gbn" /\ pc = "raised" /\ result = Raise("GBN failed: too many timeouts"))
        => snd.timeouts_at_base >= cfg.max_timeouts

\* the second of two executions of run_once_sim with the same arguments
SecondOfTwo == variant = "sim" /\ rng # Unused /\ rng.execution = 2

PackArgsInRange ==
    /\ cfg.msg_id \in 0..65535 /\ cfg.seq \in 0..65535 /\ cfg.total \in 0..65535
    /\ Len(cfg.payload) <= 65535 /\ cfg.frame_type \in 0..255

\* C21: pack_frame raises an out-of-range error and returns no bytes whenever
\* msg_id, seq or total is outside 0..65535 or the payload is longer than
\* 65535 bytes; with every argument in range it returns a frame whose two
\* reserved bytes are zero.
C21_PackFrameRangeCheck ==
    (variant = "call" /\ cfg.fn = "pack_frame" /\ pc = "returned") =>
        /\ (\/ cfg.msg_id \notin 0..65535 \/ cfg.seq \notin 0..65535
            \/ cfg.total \notin 0..65535 \/ Len(cfg.payload) > 65535)
               => /\ result.err \in {"msg_id out of range", "seq out of range",
                                      "total out of range", "payload too large"}
                  /\ DOMAIN result = {"err"}
        /\ PackArgsInRange
               => /\ result.err = NoErr
                  /\ Len(result.raw) = HDR_LEN + Len(cfg.payload) + 4
                  /\ result.raw[5] = 0 /\ result.raw[6] = 0

\* pack_frame has refused a seq of 65536 whose other arguments are in range
C21_Witness ==
    /\ variant = "call" /\ cfg.fn = "pack_frame" /\ pc = "returned"
    /\ cfg.seq = 65536 /\ cfg.msg_id = 65535 /\ cfg.total = 0
    /\ cfg.payload = <<104, 105>> /\ cfg.frame_type = TYPE_DATA
    /\ result = Raise("seq out of range")

\* the frame that fragment i (0-indexed) of n must unpack to
FragmentOf(P, m, k, n, i) ==
    [err |-> NoErr, ft |-> TYPE_DATA, msg_id |-> m, seq |-> i, total |-> n,
     payload |-> Slice(P, i * k, Min((i + 1) * k, Len(P)))]

RECURSIVE ConcatUpTo(_, _)
ConcatUpTo(map, n) == IF n <= 0 THEN <<>> ELSE ConcatUpTo(map, n - 1) \o map[n - 1]

\* what the claim has reassemble_frames return: None when a seq of
\* [0, total) is absent, the concatenation otherwise
ReassemblyAsClaimed ==
    IF \E seq \in 0..(cfg.total - 1) : seq \notin DOMAIN cfg.frames_payloads
    THEN result = [err |-> NoErr, value |-> None]
    ELSE result = [err |-> NoErr, value |-> Some(ConcatUpTo(cfg.frames_payloads, cfg.total))]

ReassembleReturned ==
    variant = "call" /\ cfg.fn = "reassemble_frames" /\ pc = "returned"

CountedSend(sent, dropped, sent1, dropped1, q, q1, taken) ==
    /\ dropped1 <= sent1
    /\ dropped1 # dropped => sent1 # sent
    /\ sent1 # sent =>
          /\ sent1 = sent + 1
          /\ \/ dropped1 = dropped + 1 /\ q1 = SubSeq(q, taken + 1, Len(q))
             \/ /\ dropped1 = dropped /\ Len(q1) = Len(q) - taken + 1
                /\ SubSeq(q1, 1, Len(q1) - 1) = SubSeq(q, taken + 1, Len(q))

\* one send of run_once_sim on the channel ch: the queue is as it was, or
\* holds one more entry, due delay_ms from now
SimSend(q, q1, ch) ==
    \/ q1 = q
    \/ /\ Len(q1) = Len(q) + 1 /\ SubSeq(q1, 1, Len(q)) = q
       /\ q1[Len(q1)].due = ch.delay_ms

\* C24: a send whose drop decision fires leaves the channel's queue as it
\* was and is counted as dropped; every other send puts exactly one item at
\* the end of the queue (in run_once_sim, due delay_ms from now); the dropped
\* counters change only with such sends, and never exceed the sent counters.
C24_ChannelSend ==
    [][/\ (variant \in {"gbn", "snw"}) =>
             /\ CountedSend(counters.data_sent, counters.data_dropped,
                            counters'.data_sent, counters'.data_dropped,
                            q_data, q_data', IF pc = "pump" /\ q_data # <<>> THEN 1 ELSE 0)
             /\ CountedSend(counters.ack_sent, counters.ack_dropped,
                            counters'.ack_sent, counters'.ack_dropped,
                            q_ack, q_ack', IF pc = "recv" /\ q_ack # <<>> THEN 1 ELSE 0)
       /\ (variant = "sim" /\ pc = "send") => SimSend(q_data, q_data', cfg.data_ch)
       /\ (variant = "sim" /\ pc = "pump") => SimSend(q_ack, q_ack', cfg.ack_ch)]_vars

\* of two sends on the data channel of arq_stop_and_wait one was dropped, the
\* other is in the queue
C24_Witness ==
    /\ variant = "snw" /\ counters.data_sent = 2 /\ counters.data_dropped = 1
    /\ Len(q_data) = 1 /\ pc = "pump"

\* the k-th smallest member of the set of positions S
Nth(S, k) == CHOOSE i \in S : Cardinality({j \in S : j < i}) = k - 1

\* the positions of q whose entry is due, and those whose entry is not
DuePositions(q) == {i \in 1..Len(q) : q[i].due <= 0}
LaterPositions(q) == {i \in 1..Len(q) : q[i].due > 0}

\* C25: pop_ready returns exactly the entries whose deliver time is
\* <= now_ms, in the order they were queued, and leaves exactly the other
\* entries, in their order; and in a run of run_once_sim, where the delay of
\* a channel is constant, the entries that are due are always the oldest in
\* the queue, so the frames of a channel are received in the order sent.
C25_PopReadyFifo ==
    /\ (variant = "call" /\ cfg.fn = "pop_ready" /\ pc = "returned") =>
          /\ Len(result.ready) = Cardinality(DuePositions(cfg.items))
          /\ \A k \in 1..Len(result.ready) :
                 result.ready[k] = cfg.items[Nth(DuePositions(cfg.items), k)].raw
          /\ Len(result.items) = Cardinality(LaterPositions(cfg.items))
          /\ \A k \in 1..Len(result.items) :
                 result.items[k] = cfg.items[Nth(LaterPositions(cfg.items), k)]
    /\ variant = "sim" =>
          /\ \A i, j \in 1..Len(q_data) : i < j => q_data[i].due <= q_data[j].due
          /\ \A i, j \in 1..Len(q_ack) : i < j => q_ack[i].due <= q_ack[j].due

\* of three queued entries the first and the last were due and were
\* returned in that order, the middle one stays
C25_Witness ==
    /\ variant = "call" /\ cfg.fn = "pop_ready" /\ pc = "returned"
    /\ Len(cfg.items) = 3
    /\ cfg.items[1].due = 0 /\ cfg.items[2].due = 1 /\ cfg.items[3].due = -1
    /\ result.ready = << <<1>>, <<3>> >> /\ Len(result.items) = 1

\* the arguments run_once is to refuse
BadArguments ==
    \/ cfg.max_payload <= 0
    \/ variant = "gbn" /\ cfg.window < 1

\* no DATA frame has been handed to the channel
NoDataSent ==
    /\ q_data = <<>>
    /\ "data_sent" \in DOMAIN counters => counters.data_sent = 0

\* C26: a run_once called with a non-positive max_payload, or a Go-Back-N
\* run called with a window < 1, ends with the invalid-argument error
\* raised to its caller, never with a RunResult, and sends no DATA frame.
C26_ArgumentErrorsFatal ==
    (variant \in {"gbn", "snw", "sim", "msr"} /\ BadArguments) =>
        /\ pc \in {"start", "raised"}
        /\ pc = "raised" =>
              result.err \in {"max_payload must be > 0", "window must be >= 1"}
        /\ NoDataSent

\* the same, for the three scripts that let the error through
C26_RaisedElsewhere ==
    (variant \in {"gbn", "snw", "sim"} /\ BadArguments) =>
        /\ pc \in {"start", "raised"}
        /\ pc = "raised" =>
              result.err \in {"max_payload must be > 0", "window must be >= 1"}
        /\ NoDataSent

\* a Stop-and-Wait run that counts its transmissions (run_once of
\* arq_stop_and_wait or of measure_arq) and neither drops nor corrupts
CountedZeroLoss ==
    \/ variant = "snw" /\ ZeroLoss
    \/ variant = "msr" /\ cfg.drop_data = 0 /\ cfg.drop_ack = 0

\* every fragment was transmitted once and acknowledged once
OncePerFragment ==
    /\ counters.data_sent = frames_total /\ counters.ack_sent = frames_total
    /\ counters.data_dropped = 0 /\ counters.ack_dropped = 0

\* the run has returned a RunResult that says so
OncePerFragmentReturned ==
    /\ pc = "done"
    /\ result.data_sent = frames_total /\ result.ack_sent = result.frames_total
    /\ result.frames_total = frames_total
    /\ result.data_dropped = 0 /\ result.ack_dropped = 0

\* C27 as stated: a Stop-and-Wait run with no drop and no corruption ends
\* with data_sent = ack_sent = frames_total and
\* data_dropped = ack_dropped = 0, whatever its timeout.
C27_ZeroLossCountersAnyTimeout ==
    (CountedZeroLoss /\ cfg.max_payload >= 1 /\ Finished) => OncePerFragment

\* C27, amended: a Stop-and-Wait run with no drop and no corruption and
\* timeout_s > 0 ends by returning a RunResult with
\* data_sent = ack_sent = frames_total and data_dropped = ack_dropped = 0;
\* while it runs no counter is ahead of the fragments handled so far.
C27_ZeroLossCounters ==
    (CountedZeroLoss /\ cfg.max_payload >= 1 /\ cfg.timeout_s >= 1) =>
        /\ counters.data_dropped = 0 /\ counters.ack_dropped = 0
        /\ counters.ack_sent <= counters.data_sent
        /\ counters.data_sent <= snd.idx + 1
        /\ counters.data_sent <= frames_total
        /\ Finished => OncePerFragment /\ OncePerFragmentReturned

\* a zero-loss run of arq_stop_and_wait has returned after three fragments
C27_Witness ==
    /\ variant = "snw" /\ ZeroLoss /\ cfg.timeout_s >= 1
    /\ pc = "done" /\ frames_total = 3
    /\ result.data_sent = 3 /\ result.ack_sent = 3
    /\ result.data_dropped = 0 /\ result.ack_dropped = 0

\* f is a correctly decoded DATA frame of the message of the run
AcceptedData(f) == f.err = NoErr /\ f.ft = TYPE_DATA /\ f.msg_id = cfg.msg_id

\* parts1 is parts with the payload of f at f.seq
StoredAt(parts, parts1, f) ==
    /\ DOMAIN parts1 = (DOMAIN parts) \cup {f.seq}
    /\ parts1[f.seq] = f.payload
    /\ \A k \in (DOMAIN parts) \ {f.seq} : parts1[k] = parts[k]

\* a frame whose seq is held already leaves the map as it was
DuplicateIdempotent(parts, parts1, f) ==
    f.seq \in DOMAIN parts => parts1 = parts

\* raw is the ACK frame that answers f
AckFor(f, raw) ==
    LET a == unpack_frame(raw)
    IN /\ a.err = NoErr /\ a.ft = TYPE_ACK /\ a.payload = <<>>
       /\ a.msg_id = f.msg_id /\ a.seq = f.seq /\ a.total = f.total

\* one turn of receiver_pump of run_once_sim on the frame f it took from
\* the data channel: the part is stored and one ACK goes to send_over_channel,
\* which drops it, queues it, or queues it corrupted
SimReceiverTurn(f) ==
    AcceptedData(f) =>
        /\ StoredAt(rx.got_parts, rx'.got_parts, f)
        /\ \/ q_ack' = q_ack /\ cfg.ack_ch.drop_prob > 0
           \/ /\ Len(q_ack') = Len(q_ack) + 1
              /\ SubSeq(q_ack', 1, Len(q_ack)) = q_ack
              /\ \/ AckFor(f, q_ack'[Len(q_ack')].raw)
                 \/ /\ cfg.ack_ch.corrupt_prob > 0
                    /\ unpack_frame(q_ack'[Len(q_ack')].raw).err # NoErr

\* what receiver_pump of arq_stop_and_wait decodes from the head of the data
\* channel, given the corruption of this turn
SnwDecoded(corrupt, draw) ==
    LET b == b64decode(Received(Head(q_data), corrupt, draw))
    IN IF b.err # NoErr THEN Raise(b.err) ELSE unpack_frame(b.raw)

\* one turn of receiver_pump of arq_stop_and_wait that decoded f: the part
\* is stored, ack_sent counts one ACK and that ACK is queued unless the ACK
\* channel drops it; a frame that is not accepted changes nothing
SnwReceiverTurn(f) ==
    IF AcceptedData(f)
    THEN /\ StoredAt(rx.got_parts, rx'.got_parts, f)
         /\ counters'.ack_sent = counters.ack_sent + 1
         /\ \/ /\ q_ack' = q_ack /\ cfg.drop_ack > 0
               /\ counters'.ack_dropped = counters.ack_dropped + 1
            \/ /\ Len(q_ack') = Len(q_ack) + 1
               /\ SubSeq(q_ack', 1, Len(q_ack)) = q_ack
               /\ counters'.ack_dropped = counters.ack_dropped
               /\ AckFor(f, b64decode(q_ack'[Len(q_ack')]).raw)
    ELSE /\ rx' = rx /\ q_ack' = q_ack
         /\ counters'.ack_sent = counters.ack_sent

\* a step is a turn of the receiver of run_once_sim, of arq_stop_and_wait
SimTurn == variant = "sim" /\ pc = "pump" /\ q_data' # q_data
SnwTurn == variant = "snw" /\ pc = "pump" /\ q_data' # q_data

\* the first half of C28 alone: every correctly decoded DATA frame with
\* matching msg_id is stored at its seq and answered with exactly one ACK
\* of the same (msg_id, seq, total), a duplicate and a frame that arrives
\* after the message is complete included.
C28_StoredAndAcked ==
    [][ /\ SimTurn => SimReceiverTurn(unpack_frame(q_data[FirstReady(q_data)].raw))
        /\ SnwTurn => \E corrupt \in Draw(cfg.corrupt_data_prob),
                         draw \in CorruptDraws(Head(q_data)) :
                         SnwReceiverTurn(SnwDecoded(corrupt, draw)) ]_vars

\* C28: a turn of the Stop-and-Wait receiver on a correctly decoded DATA
\* frame with matching msg_id stores the payload at its seq and sends exactly
\* one ACK with the same (msg_id, seq, total); on a duplicate the reassembly
\* map stays as it was and the ACK is sent all the same, also when the
\* message is complete; the latched assembled payload never changes.
C28_ReceiverStoresAndAcks ==
    [][ /\ SimTurn =>
              LET f == unpack_frame(q_data[FirstReady(q_data)].raw)
              IN /\ SimReceiverTurn(f)
                 /\ AcceptedData(f) => DuplicateIdempotent(rx.got_parts, rx'.got_parts, f)
        /\ SnwTurn =>
              \E corrupt \in Draw(cfg.corrupt_data_prob),
                 draw \in CorruptDraws(Head(q_data)) :
                 LET f == SnwDecoded(corrupt, draw)
                 IN /\ SnwReceiverTurn(f)
                    /\ AcceptedData(f) =>
                          DuplicateIdempotent(rx.got_parts, rx'.got_parts, f)
        /\ (variant = "snw" /\ rx.assembled # None) =>
              rx'.assembled = rx.assembled ]_vars

\* what receiver_pump of arq_gbn decodes from the head of the data channel,
\* given the corruption of this turn
GbnDecoded(corrupt, draw) ==
    LET b == b64decode(Received(Head(q_data), corrupt, draw))
    IN IF b.err # NoErr THEN Raise(b.err) ELSE unpack_frame(b.raw)

\* this step sends exactly one ACK, of seq: ack_sent counts it and the ACK
\* channel queues it or drops it
GbnAcked(seq) ==
    /\ counters'.ack_sent = counters.ack_sent + 1
    /\ \/ /\ q_ack' = q_ack /\ cfg.drop_ack > 0
          /\ counters'.ack_dropped = counters.ack_dropped + 1
       \/ /\ Len(q_ack') = Len(q_ack) + 1
          /\ SubSeq(q_ack', 1, Len(q_ack)) = q_ack
          /\ counters'.ack_dropped = counters.ack_dropped
          /\ LET a == unpack_frame(b64decode(q_ack'[Len(q_ack')]).raw)
             IN /\ a.err = NoErr /\ a.ft = TYPE_ACK
                /\ a.msg_id = cfg.msg_id /\ a.seq = seq

\* this step sends no ACK
GbnSilent == q_ack' = q_ack /\ counters'.ack_sent = counters.ack_sent

\* one turn of receiver_pump of arq_gbn that decoded f
GbnReceiverTurn(f) ==
    IF ~AcceptedData(f) THEN rx' = rx /\ GbnSilent
    ELSE IF f.seq = rx.expected_seq
         THEN /\ StoredAt(rx.parts, rx'.parts, f)
              /\ rx'.expected_seq = rx.expected_seq + 1
              /\ GbnAcked(f.seq)
    ELSE /\ rx'.parts = rx.parts
         /\ rx'.expected_seq = rx.expected_seq
         /\ rx'.assembled = rx.assembled
         /\ IF rx.expected_seq > 0 THEN GbnAcked(rx.expected_seq - 1) ELSE GbnSilent

\* C29: on a correctly decoded DATA frame with matching msg_id, the
\* Go-Back-N receiver with expected_seq > 0 answers a seq other than
\* expected_seq with one cumulative ACK of expected_seq - 1 and leaves parts,
\* expected_seq and assembled as they were; a seq equal to expected_seq is
\* stored, moves expected_seq up by 1 and is answered with an ACK of that seq.
C29_GbnReceiverTurn ==
    [][ (variant = "gbn" /\ pc = "pump" /\ q_data' # q_data) =>
            \E corrupt \in Draw(cfg.corrupt_data_prob),
               draw \in CorruptDraws(Head(q_data)) :
               GbnReceiverTurn(GbnDecoded(corrupt, draw)) ]_vars

\* fragment 0 was accepted and ACKed, fragment 1 was dropped, and fragment 2
\* has arrived out of order and was answered with a second ACK
C29_Witness ==
    /\ variant = "gbn" /\ frames_total = 3 /\ cfg.window = 2
    /\ rx.expected_seq = 1 /\ DOMAIN rx.parts = {0} /\ rx.assembled = None
    /\ counters.data_sent = 3 /\ counters.data_dropped = 1
    /\ counters.ack_sent = 2 /\ counters.crc_fail_total = 0
    /\ q_data = <<>> /\ snd.base = 1

\* f is a correctly decoded ACK of fragment k of the message of the run
MatchingAck(f, k) ==
    /\ f.err = NoErr /\ f.ft = TYPE_ACK
    /\ f.msg_id = cfg.msg_id /\ f.seq = k /\ f.total = frames_total

\* f is the DATA frame of fragment k of the message of the run
DataFrameOf(f, k) ==
    /\ f.err = NoErr /\ f.ft = TYPE_DATA
    /\ f.msg_id = cfg.msg_id /\ f.seq = k /\ f.total = frames_total

\* the sender of arq_stop_and_wait is reading, from the head of the ACK
\* channel, an ACK that one of the corruptions of this turn leaves as the
\* ACK of fragment k; the sender of run_once_sim has such an ACK among the
\* arrived ones
ReceivesAckOf(k) ==
    \/ /\ variant = "snw" /\ pc = "recv" /\ q_ack # <<>>
       /\ \E corrupt \in Draw(cfg.corrupt_ack_prob), draw \in CorruptDraws(Head(q_ack)) :
             MatchingAck(ReceiveFrame(Head(q_ack), corrupt, draw), k)
    \/ /\ variant = "sim" /\ pc = "acks"
       /\ \E i \in 1..Len(q_ack) :
             q_ack[i].due <= 0 /\ MatchingAck(unpack_frame(q_ack[i].raw), k)

\* this step hands a DATA frame to the data channel: arq_stop_and_wait counts
\* it, run_once_sim leaves the send for the wait
TransmitsData ==
    \/ variant = "snw" /\ counters'.data_sent # counters.data_sent
    \/ variant = "sim" /\ pc = "send" /\ pc' # pc

\* what this step queued on the data channel, if the channel kept it, is
\* fragment k: as it was packed in arq_stop_and_wait, as it was packed or
\* with the one bit of the channel's corruption changed in run_once_sim
QueuedIsFragment(k) ==
    \/ q_data' = q_data
    \/ /\ Len(q_data') = Len(q_data) + 1
       /\ SubSeq(q_data', 1, Len(q_data)) = q_data
       /\ IF variant = "snw"
          THEN DataFrameOf(unpack_frame(b64decode(q_data'[Len(q_data')]).raw), k)
          ELSE \/ q_data'[Len(q_data')].raw = frames[k + 1]
               \/ /\ cfg.data_ch.corrupt_prob > 0
                  /\ Len(q_data'[Len(q_data')].raw) = Len(frames[k + 1])

\* a step of a Stop-and-Wait sender keeps the order of the fragments
SnwOrderingStep ==
    variant \in {"snw", "sim"} =>
        /\ snd.idx <= frames_total
        /\ TransmitsData =>
              /\ snd.idx < frames_total /\ snd.seq = snd.idx
              /\ DataFrameOf(unpack_frame(frames[snd.idx + 1]), snd.idx)
              /\ QueuedIsFragment(snd.idx)
        /\ ~TransmitsData => Len(q_data') <= Len(q_data)
        /\ snd'.idx # snd.idx =>
              /\ snd'.idx = snd.idx + 1
              /\ ReceivesAckOf(snd.idx)

\* C30: the Stop-and-Wait sender works on one fragment at a time, idx, from
\* 0 up to the last: every DATA frame it transmits is the frame of seq idx,
\* idx only ever moves up by 1, and it moves only in a step in which the
\* sender reads a correctly decoded ACK matching (msg_id, idx, total); so the
\* frame of seq k + 1 is not transmitted before the ACK of k was received.
C30_SnwOrdering == [][SnwOrderingStep]_vars

\* the sender of run_once_sim, waiting for the ACK of fragment 1, finds two
\* arrived ACKs: a late second ACK of fragment 0, answer to a retransmission,
\* and behind it the ACK of fragment 1
C30_Witness ==
    /\ variant = "sim" /\ pc = "acks" /\ snd.idx = 1 /\ frames_total >= 2
    /\ Len(q_ack) = 2 /\ q_ack[1].due <= 0 /\ q_ack[2].due <= 0
    /\ MatchingAck(unpack_frame(q_ack[1].raw), 0)
    /\ MatchingAck(unpack_frame(q_ack[2].raw), 1)

\* the end of the window of the Go-Back-N sender
WindowEnd == Min(snd.base + cfg.window, frames_total)

\* the sender is in sender_pump_ack, or in the receiver_pump before it
GbnWaiting ==
    \/ pc \in {"wait", "recv"}
    \/ pc = "pump" /\ snd.ret \in {"wait", "recv"}

\* this step is a timeout that leaves budget: the wait is over, the run
\* goes on
GbnTimedOut ==
    /\ counters'.timeouts_total # counters.timeouts_total /\ pc' # "raised"

\* this step transmits a DATA frame
GbnTransmits == counters'.data_sent # counters.data_sent

\* the frame this step queued on the data channel, if the channel kept it,
\* is fragment k
GbnQueuedIsFragment(k) ==
    \/ q_data' = q_data /\ cfg.drop_data > 0
    \/ /\ Len(q_data') = Len(q_data) + 1
       /\ SubSeq(q_data', 1, Len(q_data)) = q_data
       /\ DataFrameOf(unpack_frame(b64decode(q_data'[Len(q_data')]).raw), k)

\* a step of the Go-Back-N sender keeps to the window
GoBackStep ==
    variant = "gbn" =>
        /\ GbnTimedOut => snd'.next_to_send = snd.base /\ snd'.base = snd.base
        /\ GbnTransmits =>
              /\ snd.base <= snd.next_to_send /\ snd.next_to_send < WindowEnd
              /\ snd'.next_to_send = snd.next_to_send + 1
              /\ snd'.base = snd.base
              /\ GbnQueuedIsFragment(snd.next_to_send)
        /\ ~GbnTransmits => Len(q_data') <= Len(q_data)
        /\ GbnWaiting => snd.next_to_send = WindowEnd
        /\ GbnWaiting' => snd'.next_to_send = WindowEnd'

\* C31: a timeout of the Go-Back-N sender that leaves budget sets
\* next_to_send = base; every transmission is of the frame next_to_send,
\* which lies in [base, min(base + window, frames_total)), and moves
\* next_to_send up by 1; and the sender waits for an ACK only with
\* next_to_send = min(base + window, frames_total).  So after the timeout
\* exactly the frames base .. min(base + window, frames_total) - 1 are
\* retransmitted, in order, before the next wait.
C31_GoBackOnTimeout == [][GoBackStep]_vars

\* a window of two frames has been transmitted, timed out, and transmitted
\* again in full, and the sender waits again
C31_Witness ==
    /\ variant = "gbn" /\ cfg.window = 2 /\ frames_total = 3
    /\ counters.timeouts_total = 1 /\ counters.data_sent = 4
    /\ snd.base = 0 /\ snd.next_to_send = 2 /\ pc = "wait"

\* f is a correctly decoded ACK of the message of the run
DecodedAck(f) == f.err = NoErr /\ f.ft = TYPE_ACK /\ f.msg_id = cfg.msg_id

\* f did not decode: the sender counts it and waits on
AckRefused ==
    /\ counters' = [counters EXCEPT !.crc_fail_total = @ + 1]
    /\ snd' = snd

\* the sender of arq_gbn has read f from the ACK channel
GbnAckRead(f) ==
    IF f.err # NoErr THEN AckRefused
    ELSE IF DecodedAck(f) /\ f.seq <= snd.last_ack
         THEN /\ snd'.base = snd.base /\ snd'.last_ack = snd.last_ack
              /\ snd'.next_to_send = snd.next_to_send
              /\ snd.next_to_send = WindowEnd
              /\ counters' = counters /\ q_data' = q_data
    ELSE DecodedAck(f) => snd'.last_ack = f.seq /\ counters' = counters

\* a Stop-and-Wait sender has read f from the ACK channel
SnwAckRead(f) ==
    IF f.err # NoErr THEN AckRefused /\ pc' # "frame"
    ELSE IF MatchingAck(f, snd.idx) THEN snd'.idx = snd.idx + 1 /\ pc' = "frame"
    ELSE /\ snd' = snd /\ counters' = counters /\ clock' = clock
         /\ pc' = (IF variant = "snw" THEN "wait" ELSE pc)

\* a step in which a sender reads an ACK treats it as it should
AckReadStep ==
    /\ (variant = "gbn" /\ pc = "recv" /\ q_ack' # q_ack) =>
          \E corrupt \in Draw(cfg.corrupt_ack_prob), draw \in CorruptDraws(Head(q_ack)) :
             GbnAckRead(ReceiveFrame(Head(q_ack), corrupt, draw))
    /\ (variant = "snw" /\ pc = "recv" /\ q_ack' # q_ack) =>
          \E corrupt \in Draw(cfg.corrupt_ack_prob), draw \in CorruptDraws(Head(q_ack)) :
             SnwAckRead(ReceiveFrame(Head(q_ack), corrupt, draw))
    /\ (variant = "sim" /\ pc = "acks" /\ Len(q_ack') < Len(q_ack)) =>
          SnwAckRead(unpack_frame(q_ack[FirstReady(q_ack)].raw))

\* C32: a correctly decoded ACK with seq <= last_ack leaves base, last_ack
\* and next_to_send of the Go-Back-N sender as they were, with the window
\* already sent in full, so that nothing is retransmitted, and changes no
\* counter; a correctly decoded ACK that does not match the current
\* (msg_id, seq, total) of a Stop-and-Wait sender leaves the sender in its
\* wait and changes no counter.
C32_LateAcksIgnored == [][AckReadStep]_vars

\* the Go-Back-N receiver has sent two ACKs, the second a repeat of the ACK
\* of fragment 0, and the sender has read both
C32_Witness ==
    /\ variant = "gbn" /\ pc = "loop" /\ rx.expected_seq = 1
    /\ counters.ack_sent = 2 /\ counters.ack_dropped = 0
    /\ counters.crc_fail_total = 0 /\ q_ack = <<>>
    /\ snd.last_ack = 0 /\ snd.base = 1 /\ frames_total >= 2

\* the deliver times of everything in flight, less now_ms
InFlightDues ==
    {q_data[i].due : i \in 1..Len(q_data)} \cup {q_ack[i].due : i \in 1..Len(q_ack)}

\* the earliest of them
NextDue == CHOOSE t \in InFlightDues : \A u \in InFlightDues : t <= u

\* this step ends an iteration of sender_wait_ack that did not return
WaitIterationEnds == variant = "sim" /\ pc = "acks" /\ pc' = "wait"

\* this step is the timeout of the wait
SimTimesOut ==
    variant = "sim" /\ pc = "wait" /\ counters'.retries_total # counters.retries_total

\* now_ms never decreases, and at the timeout it is deadline_ms + 1 with
\* nothing in flight that was due at deadline_ms or before
WaitKeepsTime ==
    /\ variant = "sim" => clock'.now_ms >= clock.now_ms
    /\ SimTimesOut =>
          /\ clock.deadline = -1
          /\ \A t \in InFlightDues : t > clock.deadline

\* the step of now_ms as C33 states it: to the next deliver time, or to
\* deadline_ms + 1 when nothing is in flight
WaitStepAsStated ==
    WaitIterationEnds =>
        /\ clock'.now_ms > clock.now_ms
        /\ clock'.now_ms - clock.now_ms =
              (IF InFlightDues = {} THEN clock.deadline + 1 ELSE NextDue)

\* the step of now_ms as it is: to the next deliver time or to
\* deadline_ms + 1, whichever is earlier
WaitStepCapped ==
    WaitIterationEnds =>
        /\ clock'.now_ms > clock.now_ms
        /\ \A t \in InFlightDues : t > 0
        /\ clock'.now_ms - clock.now_ms =
              (IF InFlightDues = {} THEN clock.deadline + 1
               ELSE Min(NextDue, clock.deadline + 1))
        /\ clock'.deadline = clock.deadline - (clock'.now_ms - clock.now_ms)

\* C33 as stated: now_ms never decreases; an iteration of sender_wait_ack
\* that does not return moves now_ms up, to the next deliver time of either
\* channel, or to deadline_ms + 1 when nothing is in flight; at the timeout
\* now_ms = deadline_ms + 1 and nothing due at deadline_ms or before is left.
C33_WaitMovesToNextEvent == [][WaitKeepsTime /\ WaitStepAsStated]_vars

\* C33, amended: now_ms never decreases; an iteration of sender_wait_ack
\* that does not return moves now_ms up, to the next deliver time of either
\* channel or to deadline_ms + 1, whichever is earlier (deadline_ms + 1 when
\* nothing is in flight); at the timeout now_ms = deadline_ms + 1 and
\* nothing due at deadline_ms or before is left.
C33_BoundedWait == [][WaitKeepsTime /\ WaitStepCapped]_vars

\* the wait has timed out at now_ms = 1 while the frame, sent at 0 over a
\* channel with a delay of 3, is still on its way
C33_Witness ==
    /\ variant = "sim" /\ cfg.timeout_ms = 0 /\ cfg.data_ch.delay_ms = MaxSlowDelay
    /\ clock.now_ms = 1 /\ counters.retries_total = 1
    /\ Len(q_data) = 1 /\ q_data[1].due = MaxSlowDelay - 1

\* the total the receiver of the run expects, None while it is unknown
RxTotal == IF variant = "gbn" THEN rx.total ELSE rx.expected_total

\* a turn of the receiver that decoded f: an accepted DATA frame sets the
\* total if it is unknown, and nothing else touches it
TotalAfter(f) ==
    RxTotal' = (IF AcceptedData(f) /\ RxTotal = None THEN Some(f.total) ELSE RxTotal)

GbnTurn == variant = "gbn" /\ pc = "pump" /\ q_data' # q_data

TotalStep ==
    variant \in {"gbn", "snw", "sim"} =>
        /\ pc = "start" => RxTotal = None
        /\ RxTotal # None => RxTotal' = RxTotal
        /\ ~(GbnTurn \/ SnwTurn \/ SimTurn) => RxTotal' = RxTotal
        /\ GbnTurn => \E corrupt \in Draw(cfg.corrupt_data_prob),
                         draw \in CorruptDraws(Head(q_data)) :
                         TotalAfter(GbnDecoded(corrupt, draw))
        /\ SnwTurn => \E corrupt \in Draw(cfg.corrupt_data_prob),
                         draw \in CorruptDraws(Head(q_data)) :
                         TotalAfter(SnwDecoded(corrupt, draw))
        /\ SimTurn => TotalAfter(unpack_frame(q_data[FirstReady(q_data)].raw))

\* C34: the total a receiver expects is None when the run starts, stays
\* None until the receiver decodes a DATA frame with matching msg_id, is set
\* in that turn to the total of that frame, and never changes afterwards.
C34_TotalSetOnce == [][TotalStep]_vars

\* the Go-Back-N receiver has learnt the total from fragment 1, which
\* arrived while fragment 0 was still missing
C34_Witness ==
    /\ variant = "gbn" /\ frames_total = 3 /\ rx.total = Some(3)
    /\ rx.expected_seq = 0 /\ rx.parts = EmptyDict
    /\ counters.data_dropped = 1 /\ counters.crc_fail_total = 1

\* the duration of the waveform of the raw frame
DurationOf(raw) == phy_encode_text(b64encode(raw)).dur_s

\* the duration of the waveform of an ACK: every ACK frame is as long
AckDuration == DurationOf(pack_ack(1, 0, 1).raw)

\* what a step of run_once of arq_gbn puts on the air: the DATA frame
\* next_to_send if it transmits one, an ACK if it sends one
AirTimeOfStep ==
    (IF counters'.data_sent # counters.data_sent
     THEN DurationOf(frames[snd.next_to_send + 1]) ELSE 0)
    + (IF counters'.ack_sent # counters.ack_sent THEN AckDuration ELSE 0)

DataAirTimeOfStep ==
    IF counters'.data_sent # counters.data_sent
    THEN DurationOf(frames[snd.next_to_send + 1]) ELSE 0

\* the RunResult adds the waits of the timeouts
VirtualTimeReturned ==
    (variant = "gbn" /\ pc = "done") =>
        /\ result.phy_seconds = clock.phy_seconds
        /\ result.virtual_seconds =
              result.phy_seconds + result.timeouts_total * cfg.timeout_s

AirTimeStep ==
    variant = "gbn" =>
        /\ pc = "start" => clock.phy_seconds = 0
        /\ clock'.phy_seconds = clock.phy_seconds + AirTimeOfStep
        /\ VirtualTimeReturned

DataAirTimeStep ==
    variant = "gbn" =>
        /\ pc = "start" => clock.phy_seconds = 0
        /\ clock'.phy_seconds = clock.phy_seconds + DataAirTimeOfStep
        /\ VirtualTimeReturned

\* C35: phy_seconds of run_once of arq_gbn starts at 0 and grows, with
\* every waveform handed to a channel, DATA or ACK, dropped or not, by the
\* duration of that waveform, and by nothing else; the RunResult holds it,
\* and virtual_seconds = phy_seconds + timeouts_total * timeout_s.
C35_GbnAirTime == [][AirTimeStep]_vars

\* the accounting as it is: phy_seconds grows with the DATA waveforms only
C35_GbnDataAirTime == [][DataAirTimeStep]_vars

(***************************************************************************)
(* C36: the transmission count of Stop-and-Wait                            *)
(***************************************************************************)
\* lines 323, 350 (measure_arq 233, 284): the for loop over the frames has
\* ended without raising
SenderLoopFinished ==
    /\ variant \in {"snw", "msr"}
    /\ \/ pc = "frame" /\ snd.idx = frames_total
       \/ snd.ret = "finish"

\* every transmission so far is the first of a fragment whose ACK was read,
\* the first of the fragment now waited for, or a counted retry
TransmissionsSoFar ==
    snd.idx + counters.retries_total
    + (IF pc \in {"pump", "wait", "recv"} /\ snd.ret # "finish" THEN 1 ELSE 0)

\* C36: when a Stop-and-Wait run of arq_stop_and_wait or of measure_arq has
\* finished its sender loop without raising, data_sent = frames_total +
\* retries_total, and the RunResult of arq_stop_and_wait returns these
\* counters; while the loop runs every transmission is the first one of a
\* fragment or one counted retry.
C36_SnwTransmissionCount ==
    /\ SenderLoopFinished =>
          counters.data_sent = frames_total + counters.retries_total
    /\ (SenderLoopFinished /\ variant = "snw" /\ pc = "done") =>
          result.data_sent = result.frames_total + result.retries_total
    /\ (variant \in {"snw", "msr"} /\ pc \in {"frame", "pump", "wait", "recv"}) =>
          counters.data_sent = TransmissionsSoFar

C36_Witness ==
    /\ SenderLoopFinished /\ pc = "done"
    /\ frames_total = 2 /\ counters.retries_total = 1 /\ counters.data_sent = 3

(***************************************************************************)
(* C37: what crc_fail_total of Go-Back-N counts                            *)
(***************************************************************************)
\* this step counts f in crc_fail_total exactly if f failed base64 or
\* unpack_frame decoding
CountsDecodeFailure(f) ==
    counters'.crc_fail_total =
        counters.crc_fail_total + (IF f.err # NoErr THEN 1 ELSE 0)

\* lines 181-185, 289, 297-298: f is a DATA frame of the message, out of
\* order, that arrives before fragment 0 was stored; its ACK would carry
\* seq -1, pack_ack raises, and the except clause counts the frame
AckCannotBePacked(f) ==
    AcceptedData(f) /\ f.seq # rx.expected_seq /\ rx.expected_seq = 0

\* this step counts f exactly if it failed decoding or its ACK cannot be
\* packed
CountsRaised(f) ==
    counters'.crc_fail_total =
        counters.crc_fail_total
        + (IF f.err # NoErr \/ AckCannotBePacked(f) THEN 1 ELSE 0)

\* the sender of arq_gbn takes an ACK from the ACK channel in this step
GbnAckTurn == variant = "gbn" /\ pc = "recv" /\ q_ack' # q_ack

\* crc_fail_total starts at 0 and changes in no step but a turn on a frame
CrcFailElsewhere ==
    /\ (variant = "gbn" /\ pc = "start") => counters.crc_fail_total = 0
    /\ (variant = "gbn" /\ ~GbnTurn /\ ~GbnAckTurn) =>
          counters'.crc_fail_total = counters.crc_fail_total

CrcFailStep ==
    /\ CrcFailElsewhere
    /\ GbnTurn =>
          \E corrupt \in Draw(cfg.corrupt_data_prob),
             draw \in CorruptDraws(Head(q_data)) :
             /\ GbnReceiverTurn(GbnDecoded(corrupt, draw))
             /\ CountsDecodeFailure(GbnDecoded(corrupt, draw))
    /\ GbnAckTurn =>
          \E corrupt \in Draw(cfg.corrupt_ack_prob),
             draw \in CorruptDraws(Head(q_ack)) :
             /\ GbnAckRead(ReceiveFrame(Head(q_ack), corrupt, draw))
             /\ CountsDecodeFailure(ReceiveFrame(Head(q_ack), corrupt, draw))

CrcFailRaisedStep ==
    /\ CrcFailElsewhere
    /\ GbnTurn =>
          \E corrupt \in Draw(cfg.corrupt_data_prob),
             draw \in CorruptDraws(Head(q_data)) :
             /\ GbnReceiverTurn(GbnDecoded(corrupt, draw))
             /\ CountsRaised(GbnDecoded(corrupt, draw))
    /\ GbnAckTurn =>
          \E corrupt \in Draw(cfg.corrupt_ack_prob),
             draw \in CorruptDraws(Head(q_ack)) :
             /\ GbnAckRead(ReceiveFrame(Head(q_ack), corrupt, draw))
             /\ CountsDecodeFailure(ReceiveFrame(Head(q_ack), corrupt, draw))

\* C37: in run_once of arq_gbn crc_fail_total starts at 0 and grows by one
\* exactly in a turn that takes from a channel a DATA or ACK frame that
\* fails base64 or unpack_frame decoding; a frame that decodes correctly,
\* whatever its seq, leaves crc_fail_total as it was.
C37_GbnCrcFailCount == [][CrcFailStep]_vars

\* what holds instead: crc_fail_total counts the frames that failed decoding
\* and the DATA frames that arrived out of order before fragment 0 was stored
C37_GbnCrcFailCountsRaised == [][CrcFailRaisedStep]_vars

(***************************************************************************)
(* C38: the channels of run_once_sim neither create nor duplicate frames   *)
(***************************************************************************)
\* q1 is q with raw, or raw with one bit flipped, pushed by a send over ch
\* that was not dropped
PushedOver(q, q1, raw, ch) ==
    /\ ch.drop_prob < 100
    /\ Len(q1) = Len(q) + 1 /\ SubSeq(q1, 1, Len(q)) = q
    /\ q1[Len(q1)].due = ch.delay_ms
    /\ \/ q1[Len(q1)].raw = raw
       \/ /\ ch.corrupt_prob > 0
          /\ \E bits \in CorruptBits(Len(raw)) :
                q1[Len(q1)].raw = corrupt_bytes(raw, bits[1], bits[2])

\* q1 is q less one entry that is due
PoppedOne(q, q1) == \E i \in DuePositions(q) : q1 = WithoutItem(q, i)

\* q1 is q less all its entries that are due, of which there is one at least
PoppedAll(q, q1) == DuePositions(q) # {} /\ q1 = Rest(q)

\* time has moved on by d >= 1 and both queues hold what they held
Aged ==
    /\ pc = "acks" /\ clock'.now_ms > clock.now_ms
    /\ q_data' = Later(q_data, clock'.now_ms - clock.now_ms)
    /\ q_ack' = Later(q_ack, clock'.now_ms - clock.now_ms)

\* lines 205-206 and 141: the data channel is pushed to by the sender's send
\* of the current frame and popped from by receiver_pump
DataQueueStep ==
    \/ q_data' = q_data
    \/ pc = "send" /\ PushedOver(q_data, q_data', frames[snd.idx + 1], cfg.data_ch)
    \/ pc = "pump" /\ PoppedOne(q_data, q_data')
    \/ Aged

\* the ACK that receiver_pump packs for the DATA frame raw
AckOfData(raw) ==
    LET f == unpack_frame(raw) IN pack_ack(f.msg_id, f.seq, f.total).raw

\* lines 150-153 and 165: the ACK channel is pushed to by receiver_pump, on
\* a DATA frame it has popped and decoded, and popped from by the sender
AckQueueStep ==
    \/ q_ack' = q_ack
    \/ /\ pc = "pump"
       /\ \E i \in DuePositions(q_data) :
             /\ q_data' = WithoutItem(q_data, i)
             /\ AcceptedData(unpack_frame(q_data[i].raw))
             /\ PushedOver(q_ack, q_ack', AckOfData(q_data[i].raw), cfg.ack_ch)
    \/ pc = "acks" /\ (PoppedOne(q_ack, q_ack') \/ PoppedAll(q_ack, q_ack'))
    \/ Aged

\* lines 198-214: the DATA transmissions of the sender so far
SimTransmissions ==
    snd.idx + counters.retries_total
    + (IF pc \in {"wait", "pump", "acks"} /\ snd.ret # "finish" THEN 1 ELSE 0)

ChannelStep ==
    variant = "sim" =>
       /\ pc = "start" => q_data = <<>> /\ q_ack = <<>>
       /\ DataQueueStep /\ AckQueueStep
       /\ Len(q_data) + Len(q_ack) <= SimTransmissions

\* C38: in run_once_sim both queues start empty; an entry enters the data
\* queue only by a send of the current frame that was not dropped, and the
\* ACK queue only by the send of the ACK of a DATA frame the receiver has
\* just popped and decoded; an entry leaves a queue only when it is due, in
\* the pop that hands it to the receiver or to the sender, and is gone from
\* the queue after it; the step of the clock leaves the entries of both
\* queues as they are.  So there are never more frames in flight than DATA
\* transmissions made, the receiver is handed no more DATA frames than were
\* sent and not dropped, and the sender no more ACKs than were sent and not
\* dropped.
C38_ChannelsConserveFrames == [][ChannelStep]_vars

\* of two transmissions of the only frame the second is in flight together
\* with the ACK of the first
C38_Witness ==
    /\ variant = "sim" /\ frames_total = 1 /\ counters.retries_total = 1
    /\ Len(q_data) = 1 /\ Len(q_ack) = 1
    /\ q_ack[1].raw = AckOfData(frames[1])

(***************************************************************************)
(* C39: the Go-Back-N sender never runs ahead of the receiver              *)
(***************************************************************************)
\* the ACKs queued on the ACK channel, as they decode intact
QueuedAcks ==
    {ReceiveFrame(q_ack[i], FALSE, <<0, 0, 0>>) : i \in 1..Len(q_ack)}

\* C39: in every state of run_once of arq_gbn, 0 <= base <=
\* receiver.expected_seq <= frames_total, every ACK
\* queued on the ACK channel is an ACK of the message with a seq in
\* [0, expected_seq - 1], and the receiver has stored every fragment below
\* expected_seq, so every fragment below base.
C39_SenderBehindReceiver ==
    variant = "gbn" =>
        /\ 0 <= snd.base /\ snd.base <= rx.expected_seq
        /\ rx.expected_seq <= frames_total
        /\ snd.last_ack < rx.expected_seq
        /\ \A a \in QueuedAcks :
               /\ a.err = NoErr /\ a.ft = TYPE_ACK /\ a.msg_id = cfg.msg_id
               /\ 0 <= a.seq /\ a.seq <= rx.expected_seq - 1
        /\ DOMAIN rx.parts = 0..(rx.expected_seq - 1)
        /\ \A k \in 0..(snd.base - 1) : k \in DOMAIN rx.parts

\* the receiver has stored two fragments of three, the ACK of the first has
\* moved base to 1, and the ACK of the second is still queued
C39_Witness ==
    /\ variant = "gbn" /\ frames_total = 3 /\ rx.expected_seq = 2
    /\ snd.base = 1 /\ QueuedAckSeqs = {1}

(***************************************************************************)
(* C40: run_once_sim terminates, with bounded transmissions                *)
(***************************************************************************)
\* the runs of run_once_sim with every budget, those <= 0 among them
InitSimBudgets ==
    /\ \E in \in RunInputs, ch \in Channels, r \in {-1, 0} \cup (1..MaxRetries),
          t \in 0..MaxTimeoutMs, dd \in 0..MaxDelay, da \in 0..MaxDelay :
          cfg = SimCfg(in, ch, r, t, dd, da)
    /\ SimInitState

\* run_once_sim is one sequential program: while it has a next step it
\* takes it
FairSpecSim == InitSimBudgets /\ [][NextSim]_vars /\ WF_vars(NextSim)

\* lines 203-214: the transmissions of the current seq made so far
TriesOfSeq ==
    snd.tries + (IF pc \in {"wait", "pump", "acks"} /\ snd.ret # "finish" THEN 1 ELSE 0)

TransmissionsBounded ==
    variant = "sim" =>
       /\ pc \in {"send", "wait", "pump", "acks"} =>
             TriesOfSeq <= Max(1, cfg.max_retries)
       /\ pc = "send" => snd.tries < Max(1, cfg.max_retries)
       /\ SimTransmissions <= frames_total * Max(1, cfg.max_retries)

\* C40: run_once_sim terminates for every payload, max_payload >= 1,
\* timeout_ms >= 0, channel parameters and max_retries, those <= 0 among
\* them; it transmits each seq at most max(1, max_retries) times, and so
\* makes at most frames_total * max(1, max_retries) DATA transmissions.
C40_SimTerminatesBounded == []TransmissionsBounded /\ <>Finished

\* a run with max_retries = 0 has given up after the one transmission of its
\* first frame
C40_Witness ==
    /\ variant = "sim" /\ cfg.max_retries = 0 /\ pc = "done"
    /\ frames_total = 2 /\ snd.idx = 0 /\ snd.tries = 1
    /\ counters.retries_total = 1 /\ result.ok = FALSE

=============================================================================
